---- MODULE Spec2Model ----
(***************************************************************************)
(* A model of boggart's mutant lifecycle manager                           *)
(* (src/src/boggart/server/mutant.py), of the part of the source cache it  *)
(* reads files through (src/src/boggart/server/sourcefile.py) and of the   *)
(* server handlers that reach them (src/src/boggart/server/__init__.py).   *)
(*                                                                         *)
(* Requests are served by threads that share one MutantManager and one     *)
(* SourceFileManager and hold no lock.  Every action is one step of one    *)
(* thread: a run of statements that reads or writes the shared state (the  *)
(* registry, the cache, the images and snapshots BugZoo holds) at most     *)
(* once, together with the statements around it that touch only the        *)
(* thread's own locals and its own container.  A collaborator call either  *)
(* succeeds or raises.  This is the specification Spec.                    *)
(*                                                                         *)
(* The library classes the server is built from are modelled after it,     *)
(* each with a specification of its own in which a step is a whole call:   *)
(* Replacement.resolve (SpecResolve), SourceFileManager.apply (SpecApply), *)
(* the caches of SourceFileManager (SpecSource), its line methods          *)
(* (SpecLines) and read_chars (SpecChars), the Languages and Operators      *)
(* catalogues (SpecConfig), Installation.mutations (SpecMutations) with    *)
(* the IsSingleTerm constraint (SpecConstraint), and the dictionaries in   *)
(* which mutations and errors travel to the client (SpecWire).  In each    *)
(* specification the variables of the others keep their initial values.    *)
(***************************************************************************)
EXTENDS Integers, FiniteSets, Sequences, TLC

\* Request threads of the server.
Threads == {"t1", "t2"}

\* uuid4() draws from this many identifiers.
NumUUIDs == 2
UUIDs == 1..NumUUIDs

\* generate() is called with 0..MaxMutations mutations.
MaxMutations == 2

\* File paths a mutation may name, and those the snapshot holds.
Files == {"a.c", "missing.c"}
SnapshotFiles == {"a.c"}

VARIABLES
    mutants,     \* MutantManager.__mutants: UUID -> number of mutations
    images,      \* bugzoo.docker: tags (UUIDs) of the persisted mutant images
    bugs,        \* bugzoo.bugs: UUIDs whose mutant snapshot is registered
    containers,  \* bugzoo.containers: the live containers, each named by the
                 \* thread that provisioned it (a thread holds one at a time)
    cache,       \* SourceFileManager.__cache_file_contents: cached files
    call,        \* per thread: the running call, or the last finished one
    resolveCall,        \* a call of Replacement.resolve: argument and result
    bgzFiles,           \* bugzoo.files: the text of each file of the snapshot
    cacheFileContents,  \* SourceFileManager.__cache_file_contents
    cacheOffsets,       \* SourceFileManager.__cache_offsets
    sourceCall,         \* the last call of a SourceFileManager method
    languages,          \* a Languages catalogue: name -> file endings
    operators,          \* an Operators catalogue: name -> language names
    configCall,         \* the last call of Languages.add or Operators.add
    mutationsCall,      \* a call of Installation.mutations or of a constraint
    wireCall            \* a value sent as a dictionary and decoded again

\* The state of the server, and the state of the library classes that are
\* checked on their own.
server == <<mutants, images, bugs, containers, cache, call>>
\* The calls of the mutation finder and of the serialisers.
frontend == <<mutationsCall, wireCall>>
library == <<resolveCall, bgzFiles, cacheFileContents, cacheOffsets,
             sourceCall, languages, operators, configCall,
             mutationsCall, wireCall>>

vars == <<server, library>>

\* The frame of a call that has not started: its position, its arguments,
\* its locals, and what it has asked of the collaborators so far.
NoCall ==
    [op |-> "none", pc |-> "idle", uuid |-> 0, n |-> 0, file |-> "",
     exc |-> "none", nprov |-> 0, ndestroy |-> 0, builds |-> "unknown",
     persisted |-> FALSE, snap |-> FALSE, imgdel |-> 0, logged |-> FALSE]

Begin(op) == [NoCall EXCEPT !.op = op]

\* The call returns (e = "none") or raises e: its frame is gone, and what
\* its caller is left with is the operation, the UUID and the number of
\* mutations it was about, its outcome, and whether it logged an exception
\* it swallowed.
Finish(c, e) ==
    [NoCall EXCEPT !.pc = "done", !.op = c.op, !.uuid = c.uuid, !.n = c.n,
                   !.exc = e, !.logged = c.logged]

\* No thread stands between the end of a call and its caller going on.
Quiet == \A t \in Threads : call[t].pc # "done"

Registered == DOMAIN mutants

Put(m, u, n) == [x \in DOMAIN m \cup {u} |-> IF x = u THEN n ELSE m[x]]

Drop(m, u) == [x \in DOMAIN m \ {u} |-> m[x]]

\* The server after construction: Installation.load builds the managers
\* with nothing registered and nothing cached.
ServerInit ==
    /\ mutants = <<>>
    /\ images = {}
    /\ bugs = {}
    /\ containers = {}
    /\ cache = {}
    /\ call = [t \in Threads |-> NoCall]

\* No library call is under way: no argument, no result, empty catalogues.
NoLibCall == [op |-> "none", pc |-> "idle"]

ResolveIdle == resolveCall = NoLibCall

SourceIdle ==
    /\ bgzFiles = <<>>
    /\ cacheFileContents = <<>>
    /\ cacheOffsets = <<>>
    /\ sourceCall = NoLibCall

ConfigIdle ==
    /\ languages = <<>>
    /\ operators = <<>>
    /\ configCall = NoLibCall

FrontendIdle ==
    /\ mutationsCall = NoLibCall
    /\ wireCall = NoLibCall

Init == ServerInit /\ FrontendIdle /\ ResolveIdle /\ SourceIdle /\ ConfigIdle

----------------------------------------------------------------------------
(* MutantManager.generate *)

\* Lines 95-143, generate without the precondition of lines 93-94 on the
\* number of mutations.
GenerateCallAnyOrder(t, n, u, r, f) ==
    /\ call[t].pc = "idle"
    /\ Quiet
    /\ call' = [call EXCEPT ![t] =
          LET c == [Begin("generate") EXCEPT !.n = n, !.uuid = u] IN
          IF u \in Registered THEN Finish(c, "AssertionError")
          ELSE IF n = 0 THEN [c EXCEPT !.pc = "g_diff"]
          ELSE IF r = "ok" THEN [c EXCEPT !.pc = "g_read", !.file = f]
          ELSE Finish(c, r)]
    /\ UNCHANGED <<mutants, images, bugs, containers, cache>>
    /\ UNCHANGED library

\* Lines 89-143: the precondition on the number of mutations; uuid4() and
\* the check that the UUID is not in use; then each mutation becomes a
\* replacement: the operator lookup raises KeyError, the transformation
\* index IndexError, and the rewriter (rooibos.substitute) may fail.  n is
\* the number of mutations, u what uuid4() returns, r what the mutation makes
\* happen and f the file it names.
GenerateCall(t, n, u, r, f) ==
    /\ call[t].pc = "idle"
    /\ Quiet
    /\ call' = [call EXCEPT ![t] =
          LET b == [Begin("generate") EXCEPT !.n = n]
              c == [b EXCEPT !.uuid = u]
          IN  IF n > 1 THEN Finish(b, "AssertionError")
              ELSE IF u \in Registered THEN Finish(c, "AssertionError")
              ELSE IF n = 0 THEN [c EXCEPT !.pc = "g_diff"]
              ELSE IF r = "ok" THEN [c EXCEPT !.pc = "g_read", !.file = f]
              ELSE Finish(c, r)]
    /\ UNCHANGED <<mutants, images, bugs, containers, cache>>
    /\ UNCHANGED library

\* sourcefile.py 239-258, called from mutant.py 149: a cached file is
\* returned at once; otherwise a temporary container is provisioned and the
\* file is read from it, a missing file becoming FileNotFound.
ReadFileEnter(t, ok) ==
    /\ call[t].pc = "g_read"
    /\ Quiet
    /\ IF call[t].file \in cache
       THEN /\ call' = [call EXCEPT ![t] =
                  [@ EXCEPT !.pc = "g_diff", !.file = ""]]
            /\ UNCHANGED containers
       ELSE IF ok
       THEN /\ containers' = containers \cup {t}
            /\ call' = [call EXCEPT ![t] =
                  [@ EXCEPT !.pc = "rf_destroy",
                            !.exc = IF call[t].file \in SnapshotFiles
                                    THEN "none" ELSE "FileNotFound"]]
       ELSE /\ call' = [call EXCEPT ![t] = Finish(@, "ReadProvisionError")]
            /\ UNCHANGED containers
    /\ UNCHANGED <<mutants, images, bugs, cache>>
    /\ UNCHANGED library

\* sourcefile.py 259-265 as they would be without the finally block: the
\* temporary container outlives a read that raised.
ReadFileKeepsContainer(t) ==
    /\ call[t].pc = "rf_destroy"
    /\ Quiet
    /\ IF call[t].exc # "none"
       THEN /\ call' = [call EXCEPT ![t] = Finish(@, @.exc)]
            /\ UNCHANGED <<cache, containers>>
       ELSE /\ call' = [call EXCEPT ![t] =
                  [@ EXCEPT !.pc = "g_diff", !.file = ""]]
            /\ cache' = cache \cup {call[t].file}
            /\ containers' = containers \ {t}
    /\ UNCHANGED <<mutants, images, bugs>>
    /\ UNCHANGED library

\* sourcefile.py 259-265: the finally block destroys the temporary
\* container; then the error propagates or the contents are cached.
ReadFileDestroy(t) ==
    /\ call[t].pc = "rf_destroy"
    /\ Quiet
    /\ containers' = containers \ {t}
    /\ IF call[t].exc # "none"
       THEN /\ call' = [call EXCEPT ![t] = Finish(@, @.exc)]
            /\ UNCHANGED cache
       ELSE /\ call' = [call EXCEPT ![t] =
                  [@ EXCEPT !.pc = "g_diff", !.file = ""]]
            /\ cache' = cache \cup {call[t].file}
    /\ UNCHANGED <<mutants, images, bugs>>
    /\ UNCHANGED library

\* Lines 150-169: for the file of the mutation, apply the replacements,
\* render the diff and parse it (a location outside the file, or a diff that
\* does not parse, raises); then provision the container the mutant is made
\* in.  With no mutation there is no file, and the diff that is parsed is
\* the empty string.
GenProvision(t, okdiff, ok) ==
    /\ call[t].pc = "g_diff"
    /\ Quiet
    /\ IF ~okdiff
       THEN /\ call' = [call EXCEPT ![t] = Finish(@, "DiffError")]
            /\ UNCHANGED containers
       ELSE IF ok
       THEN /\ containers' = containers \cup {t}
            /\ call' = [call EXCEPT ![t] =
                  [@ EXCEPT !.pc = "g_patch", !.nprov = @ + 1]]
       ELSE /\ call' = [call EXCEPT ![t] = Finish(@, "ProvisionError")]
            /\ UNCHANGED containers
    /\ UNCHANGED <<mutants, images, bugs, cache>>
    /\ UNCHANGED library

\* Lines 170-179 as they would be without the finally block: a failure of
\* patch or persist leaves generate with the container still live.
GenPatchPersistNoFinally(t, okpatch, okpersist) ==
    /\ call[t].pc = "g_patch"
    /\ Quiet
    /\ LET e == IF call[t].n = 0 THEN "UnboundLocalError"
                ELSE IF ~okpatch THEN "PatchError"
                ELSE IF ~okpersist THEN "PersistError"
                ELSE "none"
       IN /\ images' = IF e = "none" THEN images \cup {call[t].uuid}
                       ELSE images
          /\ containers' = IF e = "none" THEN containers \ {t}
                           ELSE containers
          /\ call' = [call EXCEPT ![t] =
                IF e # "none" THEN Finish(@, e)
                ELSE [@ EXCEPT !.pc = "g_register", !.ndestroy = @ + 1,
                               !.persisted = TRUE]]
    /\ UNCHANGED <<mutants, bugs, cache>>
    /\ UNCHANGED library

\* Lines 170-179, the try block and its finally: patch the container and
\* persist it as the image boggart/<uuid>; whatever happens, destroy the
\* container; a pending exception then leaves generate.  `diff` is bound
\* only by the loop over the files (line 153), so with no mutation reading it
\* raises.
GenPatchPersist(t, okpatch, okpersist) ==
    /\ call[t].pc = "g_patch"
    /\ Quiet
    /\ LET e == IF call[t].n = 0 THEN "UnboundLocalError"
                ELSE IF ~okpatch THEN "PatchError"
                ELSE IF ~okpersist THEN "PersistError"
                ELSE "none"
       IN /\ images' = IF e = "none" THEN images \cup {call[t].uuid}
                       ELSE images
          /\ containers' = containers \ {t}
          /\ call' = [call EXCEPT ![t] =
                IF e # "none" THEN Finish(@, e)
                ELSE [@ EXCEPT !.pc = "g_register", !.ndestroy = @ + 1,
                               !.persisted = TRUE]]
    /\ UNCHANGED <<mutants, bugs, cache>>
    /\ UNCHANGED library

\* Lines 181-206 with the mutant tracked before its snapshot is registered.
GenTrackThenRegister(t, ok) ==
    /\ call[t].pc = "g_register"
    /\ Quiet
    /\ mutants' = Put(mutants, call[t].uuid, call[t].n)
    /\ IF ok
       THEN /\ bugs' = bugs \cup {call[t].uuid}
            /\ call' = [call EXCEPT ![t] =
                  [@ EXCEPT !.pc = "g_track", !.snap = TRUE]]
       ELSE /\ call' = [call EXCEPT ![t] = Finish(@, "RegisterError")]
            /\ UNCHANGED bugs
    /\ UNCHANGED <<images, containers, cache>>
    /\ UNCHANGED library

\* Lines 181-197: register the mutant's snapshot with BugZoo.
GenRegisterSnapshot(t, ok) ==
    /\ call[t].pc = "g_register"
    /\ Quiet
    /\ IF ok
       THEN /\ bugs' = bugs \cup {call[t].uuid}
            /\ call' = [call EXCEPT ![t] =
                  [@ EXCEPT !.pc = "g_track", !.snap = TRUE]]
       ELSE /\ call' = [call EXCEPT ![t] = Finish(@, "RegisterError")]
            /\ UNCHANGED bugs
    /\ UNCHANGED <<mutants, images, containers, cache>>
    /\ UNCHANGED library

\* Lines 199-206: track the mutant and return it.  b is whether the patched
\* program builds: generate never asks, so only its caller can find out.
GenTrack(t, b) ==
    /\ call[t].pc = "g_track"
    /\ Quiet
    /\ mutants' = Put(mutants, call[t].uuid, call[t].n)
    /\ call' = [call EXCEPT ![t] =
          [Finish(@, "none") EXCEPT !.builds = IF b THEN "yes" ELSE "no"]]
    /\ UNCHANGED <<images, bugs, containers, cache>>
    /\ UNCHANGED library

----------------------------------------------------------------------------
(* MutantManager.__getitem__, __delitem__, and clear *)

\* __getitem__ as a lookup that finds every UUID.
GetItemFindsAll(t, u) ==
    /\ call[t].pc = "idle"
    /\ Quiet
    /\ call' = [call EXCEPT ![t] =
          Finish([Begin("getitem") EXCEPT !.uuid = u], "none")]
    /\ UNCHANGED <<mutants, images, bugs, containers, cache>>
    /\ UNCHANGED library

\* Lines 40-47.
GetItem(t, u) ==
    /\ call[t].pc = "idle"
    /\ Quiet
    /\ call' = [call EXCEPT ![t] =
          Finish([Begin("getitem") EXCEPT !.uuid = u],
                 IF u \in Registered THEN "none" ELSE "KeyError")]
    /\ UNCHANGED <<mutants, images, bugs, containers, cache>>
    /\ UNCHANGED library

\* Lines 56-61: the lookup of __delitem__.
DelLookup(t, u) ==
    /\ call[t].pc = "idle"
    /\ Quiet
    /\ call' = [call EXCEPT ![t] =
          LET c == [Begin("delitem") EXCEPT !.uuid = u] IN
          IF u \in Registered THEN [c EXCEPT !.pc = "d_image"]
          ELSE Finish(c, "KeyError")]
    /\ UNCHANGED <<mutants, images, bugs, containers, cache>>
    /\ UNCHANGED library

\* Lines 62-69 without the try/except around delete_image: its failure
\* leaves __delitem__ before the entry is removed.
DelImageRaises(t, ok) ==
    /\ call[t].pc = "d_image"
    /\ Quiet
    /\ images' = IF ok THEN images \ {call[t].uuid} ELSE images
    /\ call' = [call EXCEPT ![t] =
          IF ok THEN [@ EXCEPT !.pc = "d_entry", !.imgdel = @ + 1]
          ELSE Finish(@, "ImageError")]
    /\ UNCHANGED <<mutants, bugs, containers, cache>>
    /\ UNCHANGED library

\* Lines 62-67: delete the image; a failure is logged and swallowed.
DelImage(t, ok) ==
    /\ call[t].pc = "d_image"
    /\ Quiet
    /\ images' = IF ok THEN images \ {call[t].uuid} ELSE images
    /\ call' = [call EXCEPT ![t] =
          [@ EXCEPT !.pc = "d_entry", !.imgdel = @ + 1, !.logged = ~ok]]
    /\ UNCHANGED <<mutants, bugs, containers, cache>>
    /\ UNCHANGED library

\* Lines 68-69: remove the entry; the snapshot stays registered (FIXME).
DelEntry(t) ==
    /\ call[t].pc = "d_entry"
    /\ Quiet
    /\ IF call[t].uuid \in Registered
       THEN /\ mutants' = Drop(mutants, call[t].uuid)
            /\ call' = [call EXCEPT ![t] = Finish(@, "none")]
       ELSE /\ call' = [call EXCEPT ![t] = Finish(@, "KeyError")]
            /\ UNCHANGED mutants
    /\ UNCHANGED <<images, bugs, containers, cache>>
    /\ UNCHANGED library

\* server/__init__.py 349-353 (and 147, 558): installation.mutants.clear().
\* MutantManager defines no clear, so the attribute lookup raises.
ClearMutants(t) ==
    /\ call[t].pc = "idle"
    /\ Quiet
    /\ call' = [call EXCEPT ![t] = Finish(Begin("clear"), "AttributeError")]
    /\ UNCHANGED <<mutants, images, bugs, containers, cache>>
    /\ UNCHANGED library

\* server/__init__.py 145-159, the handler of POST /shutdown.  Its first
\* statement (147) is installation.mutants.clear(), which raises
\* AttributeError as in ClearMutants; the handler has no try around it, so
\* the flush, the countdown and os.kill (148-157) are never reached and the
\* request ends in the error.  Nothing is deleted and no signal is sent.
Shutdown(t) ==
    /\ call[t].pc = "idle"
    /\ Quiet
    /\ call' = [call EXCEPT ![t] =
          Finish(Begin("shutdown"), "AttributeError")]
    /\ UNCHANGED <<mutants, images, bugs, containers, cache>>
    /\ UNCHANGED library

\* server/__init__.py 371-382, the handler of DELETE /mutants/<uuid>, which
\* client/mutants.py 46-60 calls: it looks the mutant up
\* (MutantManager.__getitem__), turns a failed lookup into MutantNotFound
\* (404), and otherwise answers 204.  It never calls __delitem__.
DeleteMutant(t, u) ==
    /\ call[t].pc = "idle"
    /\ Quiet
    /\ call' = [call EXCEPT ![t] =
          Finish([Begin("delete_mutant") EXCEPT !.uuid = u],
                 IF u \in Registered THEN "none" ELSE "MutantNotFound")]
    /\ UNCHANGED <<mutants, images, bugs, containers, cache>>
    /\ UNCHANGED library

\* The caller of a finished call goes on: the thread is free for the next
\* request.
Return(t) ==
    /\ call[t].pc = "done"
    /\ call' = [call EXCEPT ![t] = NoCall]
    /\ UNCHANGED <<mutants, images, bugs, containers, cache>>
    /\ UNCHANGED library

----------------------------------------------------------------------------

ReplacementOutcomes == {"ok", "KeyError", "IndexError", "RooibosError"}

\* The inputs of generate that lead to different runs: the UUID matters only
\* once the precondition holds, what the mutation makes happen only when
\* there is a mutation, and its file only when it becomes a replacement.
GenerateInputs ==
    {<<n, 1, "ok", "a.c">> : n \in 2..MaxMutations}
    \cup {<<0, u, "ok", "a.c">> : u \in UUIDs}
    \cup {<<1, u, r, "a.c">> : u \in UUIDs, r \in ReplacementOutcomes \ {"ok"}}
    \cup {<<1, u, "ok", f>> : u \in UUIDs, f \in Files}

\* Every step but Return waits for Quiet.  Return touches nothing the
\* threads share and commutes with every step of the other threads, so it is
\* taken as soon as a call has ended: no interleaving of the statements of
\* the program is lost.
Next ==
    \E t \in Threads :
        \/ \E i \in GenerateInputs : GenerateCall(t, i[1], i[2], i[3], i[4])
        \/ \E ok \in BOOLEAN : ReadFileEnter(t, ok)
        \/ ReadFileDestroy(t)
        \/ \E okdiff \in BOOLEAN, ok \in BOOLEAN : GenProvision(t, okdiff, ok)
        \/ \E okpatch \in BOOLEAN, okpersist \in BOOLEAN :
              GenPatchPersist(t, okpatch, okpersist)
        \/ \E ok \in BOOLEAN : GenRegisterSnapshot(t, ok)
        \/ \E b \in BOOLEAN : GenTrack(t, b)
        \/ \E u \in UUIDs : GetItem(t, u)
        \/ \E u \in UUIDs : DelLookup(t, u)
        \/ \E ok \in BOOLEAN : DelImage(t, ok)
        \/ DelEntry(t)
        \/ ClearMutants(t)
        \/ Shutdown(t)
        \/ \E u \in UUIDs : DeleteMutant(t, u)
        \/ Return(t)

Spec == Init /\ [][Next]_vars

----------------------------------------------------------------------------
(* Properties.  A step changes the frame of exactly one thread: the thread    *)
(* that takes it.                                                             *)

\* Thread t takes the step.
Steps(t) == call'[t] # call[t]

\* The step destroys the container thread t holds.
Destroys(t) == t \in containers /\ t \notin containers'

\* Thread t starts a call of op with this step.
Starts(t, op) == call[t].pc = "idle" /\ call'[t].op = op

\* Thread t, running generate, takes the step.
StepsInGenerate(t) ==
    call[t].pc \notin {"idle", "done"} /\ call[t].op = "generate" /\ Steps(t)

\* C1: every container generate provisions is destroyed exactly once on
\* every exit path.  The step that follows the provisioning of the mutant's
\* container (the try block and its finally) destroys it, whether generate
\* goes on or leaves; the steps after it neither hold nor destroy a container;
\* and generate never leaves, by return or by exception, with a container
\* of its own still live.
ContainerDestroyedOnce ==
    [][\A t \in Threads :
          StepsInGenerate(t) =>
              /\ call[t].pc = "g_patch" =>
                    /\ call[t].nprov = 1 /\ call[t].ndestroy = 0
                    /\ Destroys(t)
                    /\ call'[t].pc # "done" => call'[t].ndestroy = 1
              /\ call[t].pc \in {"g_register", "g_track"} =>
                    /\ call[t].nprov = 1 /\ call[t].ndestroy = 1
                    /\ t \notin containers /\ t \notin containers'
              /\ call'[t].pc = "done" => t \notin containers']_vars

\* A generate whose patch failed after the container was provisioned has
\* left, and its container is gone.
ContainerDestroyedOnceWitness ==
    \E t \in Threads :
        /\ call[t].op = "generate"
        /\ call[t].pc = "done"
        /\ call[t].exc = "PatchError"
        /\ t \notin containers

\* C2: if the patched program does not build, generate raises BuildFailure.
\* Stated on the calls that have just left generate.
BuildFailureRaised ==
    \A t \in Threads :
        (call[t].op = "generate" /\ call[t].pc = "done"
            /\ call[t].builds = "no") => call[t].exc = "BuildFailure"

OneImageDeletion ==
    \A t1, t2 \in Threads :
        (/\ t1 # t2
         /\ call[t1].op = "delitem" /\ call[t2].op = "delitem"
         /\ call[t1].pc # "done" /\ call[t2].pc # "done"
         /\ call[t1].uuid = call[t2].uuid)
        => call[t1].imgdel + call[t2].imgdel <= 1

\* C5: __delitem__ asks for the image to be deleted, then removes the entry.
\* Whether or not the image deletion succeeded the call goes on to remove the
\* entry, and when it returns the UUID is not registered.  An entry is
\* removed only by a call that has asked for the image deletion.
DeleteImageThenEntry ==
    [][\A t \in Threads :
          /\ (call[t].pc = "d_image" /\ Steps(t)) =>
                /\ call'[t].pc = "d_entry" /\ call'[t].exc = "none"
                /\ call[t].imgdel = 0 /\ call'[t].imgdel = 1
                /\ call[t].uuid \notin images' \/ call'[t].logged
                /\ mutants' = mutants
          /\ (call[t].pc = "d_entry" /\ Steps(t)) =>
                /\ call[t].imgdel = 1
                /\ call'[t].pc = "done"
                /\ call[t].uuid \notin DOMAIN mutants'
                /\ call'[t].exc = "none" =>
                      mutants' = Drop(mutants, call[t].uuid)
          /\ (call[t].pc # "d_entry" /\ Steps(t)) =>
                DOMAIN mutants \subseteq DOMAIN mutants']_vars

\* A __delitem__ whose image deletion failed (it logged the failure) has
\* returned: the image is still there and the UUID is not registered.
DeleteImageThenEntryWitness ==
    \E t \in Threads :
        /\ call[t].op = "delitem" /\ call[t].pc = "done"
        /\ call[t].exc = "none" /\ call[t].logged
        /\ call[t].uuid \in images
        /\ call[t].uuid \notin Registered

\* C6: looking up or deleting a UUID that is not registered raises KeyError,
\* asks for no image deletion and leaves the registry as it was.  A lookup
\* ends in its first step; a deletion of an absent UUID ends in its first
\* step too, before the image deletion that only its second step requests.
AbsentRaisesKeyError ==
    [][\A t \in Threads :
          /\ Starts(t, "getitem") =>
                /\ call'[t].pc = "done"
                /\ call'[t].exc = IF call'[t].uuid \in Registered
                                  THEN "none" ELSE "KeyError"
                /\ mutants' = mutants /\ images' = images
          /\ Starts(t, "delitem") =>
                /\ IF call'[t].uuid \in Registered
                   THEN call'[t].pc = "d_image"
                   ELSE call'[t].pc = "done" /\ call'[t].exc = "KeyError"
                /\ call'[t].imgdel = 0
                /\ mutants' = mutants /\ images' = images]_vars

\* While a mutant is registered, the deletion of a UUID that never was has
\* raised KeyError.
AbsentRaisesKeyErrorWitness ==
    \E t \in Threads :
        /\ call[t].op = "delitem" /\ call[t].pc = "done"
        /\ call[t].exc = "KeyError"
        /\ call[t].uuid \notin bugs
        /\ Registered # {}

\* C7: clear() returns, leaving the registry empty and no image of a mutant
\* that was registered.
ClearEmptiesRegistry ==
    [][\A t \in Threads :
          Starts(t, "clear") =>
              /\ call'[t].exc = "none"
              /\ mutants' = <<>>
              /\ images' \cap Registered = {}]_vars

\* What generate raises when it cannot compute the diff: an unknown operator,
\* a transformation index out of range, a rewriter error, a file not found,
\* or a failure to apply the replacements and parse the diff.
DiffErrors == {"KeyError", "IndexError", "RooibosError", "FileNotFound",
               "DiffError"}

\* Thread t leaves generate with this step because the diff could not be
\* computed.
RaisesDiffError(t) ==
    /\ call'[t].pc = "done"
    /\ call'[t].op = "generate"
    /\ call'[t].exc \in DiffErrors
    /\ Steps(t)

\* C8 as stated: a generate that fails to compute the diff has provisioned no
\* container at any point of the call, persisted no image and left the
\* registry as it was.
DiffFailureProvisionsNothing ==
    [][\A t \in Threads :
          RaisesDiffError(t) =>
              /\ t \notin containers /\ t \notin containers'
              /\ images' = images /\ mutants' = mutants /\ bugs' = bugs]_vars

\* C8, amended: a generate that fails to compute the diff leaves no external
\* resource allocated: the mutant's container was never provisioned, no
\* container of the call is live, no image is persisted and the registry is
\* as it was.  For an unknown operator, a bad transformation index or a
\* rewriter error the call has provisioned no container at all; a file not
\* found is discovered in a temporary container that read_file provisions,
\* and destroys before the error leaves generate.
DiffFailureLeavesNothing ==
    [][\A t \in Threads :
          RaisesDiffError(t) =>
              /\ call[t].nprov = 0
              /\ t \notin containers'
              /\ images' = images /\ mutants' = mutants /\ bugs' = bugs
              /\ call'[t].exc \in {"KeyError", "IndexError", "RooibosError"}
                    => call[t].pc = "idle" /\ containers' = containers
              /\ call'[t].exc = "DiffError"
                    => call[t].pc = "g_diff" /\ containers' = containers
              /\ call'[t].exc = "FileNotFound"
                    => call[t].pc = "rf_destroy" /\ Destroys(t)]_vars

\* A generate has raised FileNotFound: no container is live, and its UUID has
\* no image and no entry.
DiffFailureLeavesNothingWitness ==
    \E t \in Threads :
        /\ call[t].op = "generate" /\ call[t].pc = "done"
        /\ call[t].exc = "FileNotFound"
        /\ containers = {}
        /\ call[t].uuid \notin images \cup Registered

\* C9: generate with more than one mutation is rejected in its first step,
\* before any collaborator is called: it raises AssertionError, and no
\* container, image, snapshot, cache entry or registry entry has changed.
\* So every registered mutant carries at most one mutation.
HigherOrderRejected ==
    [][/\ \A t \in Threads :
             (call'[t].n > 1 /\ Starts(t, "generate")) =>
                 /\ call'[t].pc = "done"
                 /\ call'[t].exc = "AssertionError"
                 /\ UNCHANGED <<mutants, images, bugs, containers, cache>>
       /\ mutants' # mutants =>
             \A u \in DOMAIN mutants' : mutants'[u] <= 1]_vars

\* A generate with two mutations has been rejected while a mutant is
\* registered.
HigherOrderRejectedWitness ==
    \E t \in Threads :
        /\ call[t].op = "generate" /\ call[t].pc = "done"
        /\ call[t].n > 1 /\ call[t].exc = "AssertionError"
        /\ Registered # {}

\* C10: when no call is running, the persisted mutant images and the
\* registered mutant snapshots are exactly those of the registered mutants.
QuiescentArtifactsMatch ==
    (\A t \in Threads : call[t].pc \in {"idle", "done"}) =>
        /\ images = Registered
        /\ bugs = Registered

DeleteRequestRemoves ==
    \A t \in Threads :
        call[t].pc = "done" /\ call[t].op = "delete_mutant"
            => IF call[t].exc = "none"
               THEN /\ call[t].uuid \notin Registered
                    /\ call[t].uuid \notin images
               ELSE /\ call[t].exc = "MutantNotFound"
                    /\ call[t].uuid \notin Registered

----------------------------------------------------------------------------
(* Replacement.resolve (src/src/boggart/core/replacement.py), checked on    *)
(* its own: the call's argument is drawn in the initial state and the only   *)
(* step is the call returning.                                               *)

\* resolve is called with up to this many replacements.
MaxReplacements == 4

\* The lines and columns a location may name.
LocLines == {1, 2}
LocCols == {0, 1}

\* core/location.py 11-22: a Location is a line and a column.
Locations == {[line |-> l, col |-> c] : l \in LocLines, c \in LocCols}

\* Location is an attrs class: attr.s generates its ordering, which compares
\* (line, col) as tuples.
LocLT(a, b) == a.line < b.line \/ (a.line = b.line /\ a.col < b.col)

LocLE(a, b) == a = b \/ LocLT(a, b)

\* A replacement: the range it replaces (core/location.py 69-82: start and
\* stop, stop not before start) and the text it puts there.  All of them are
\* in one file, the group resolve works on in lines 34-61.
Replacements ==
    {[start |-> a, stop |-> b, text |-> "x"] :
        <<a, b>> \in {ab \in Locations \X Locations : LocLE(ab[1], ab[2])}}

RECURSIVE SeqsUpTo(_, _)
\* The sequences over S of length at most n.
SeqsUpTo(S, n) ==
    IF n = 0 THEN {<<>>}
    ELSE LET shorter == SeqsUpTo(S, n - 1) IN
         shorter \cup {Append(q, x) : q \in {r \in shorter : Len(r) = n - 1},
                                      x \in S}

\* Lines 37-38: cmp answers -1 when x < y and 0 otherwise, also when x > y.
Cmp(x, y) == IF LocLT(x, y) THEN -1 ELSE IF x = y THEN 0 ELSE 0

\* Lines 40-46.
Compare(x, y) ==
    IF x.start # y.start THEN Cmp(x.start, y.start)
    ELSE 0 - Cmp(x.stop, y.stop)

RECURSIVE InsertSorted(_, _)
\* list.sort is stable and moves y before e only when key(y) < key(e), which
\* cmp_to_key makes Compare(y, e) < 0.
InsertSorted(sorted, y) ==
    IF sorted = <<>> THEN <<y>>
    ELSE LET e == sorted[Len(sorted)] IN
         IF Compare(y, e) < 0
         THEN Append(InsertSorted(SubSeq(sorted, 1, Len(sorted) - 1), y), e)
         ELSE Append(sorted, y)

RECURSIVE SortReps(_)
\* Line 48: reps.sort(key=functools.cmp_to_key(compare)).
SortReps(reps) ==
    IF reps = <<>> THEN <<>>
    ELSE InsertSorted(SortReps(SubSeq(reps, 1, Len(reps) - 1)),
                      reps[Len(reps)])

RECURSIVE FilterKeepAll(_, _, _, _)
\* The loop of lines 52-59 without its test: every candidate is accepted.
FilterKeepAll(reps, i, j, filtered) ==
    IF j > Len(reps) THEN filtered
    ELSE FilterKeepAll(reps, i + 1, j + 1, Append(filtered, reps[j]))

RECURSIVE FilterReps(_, _, _, _)
\* Lines 52-59: the candidate reps[j] is dropped when reps[i] stops after it
\* starts; otherwise it is accepted and i moves on by one (indices from 1).
FilterReps(reps, i, j, filtered) ==
    IF j > Len(reps) THEN filtered
    ELSE IF LocLT(reps[j].start, reps[i].stop)
         THEN FilterReps(reps, i, j + 1, filtered)
         ELSE FilterReps(reps, i + 1, j + 1, Append(filtered, reps[j]))

\* Line 60 left out: the list as it is.
Unreversed(q) == q

\* Line 60: filtered.reverse().
Reverse(q) == [k \in 1..Len(q) |-> q[Len(q) + 1 - k]]

\* Lines 26-67 for replacements of one file: no replacement, no group and an
\* empty result; otherwise sort, filter from [reps[0]], reverse.
Resolve(replacements) ==
    IF replacements = <<>> THEN <<>>
    ELSE LET reps == SortReps(replacements) IN
         Reverse(FilterReps(reps, 1, 2, <<reps[1]>>))

InitResolve ==
    /\ ServerInit /\ FrontendIdle /\ SourceIdle /\ ConfigIdle
    /\ resolveCall \in {[op |-> "resolve", pc |-> "called",
                         replacements |-> q, resolved |-> <<>>] :
                           q \in SeqsUpTo(Replacements, MaxReplacements)}

ResolveReturn ==
    /\ resolveCall.pc = "called"
    /\ resolveCall' = [resolveCall EXCEPT
          !.pc = "returned", !.resolved = Resolve(resolveCall.replacements)]
    /\ UNCHANGED <<server, frontend, bgzFiles, cacheFileContents, cacheOffsets,
                   sourceCall, languages, operators, configCall>>

NextResolve == ResolveReturn

SpecResolve == InitResolve /\ [][NextResolve]_vars

\* The two ranges share a character position: each starts before the other
\* stops.
Overlap(x, y) == LocLT(x.start, y.stop) /\ LocLT(y.start, x.stop)

\* The two ranges are disjoint and not adjacent: one stops strictly before
\* the other starts.
Apart(x, y) == LocLT(x.stop, y.start) \/ LocLT(y.stop, x.start)

\* resolve has returned from a call with n replacements.
Resolved(n) ==
    resolveCall.pc = "returned" /\ Len(resolveCall.replacements) = n

NoConflict(x, y) == LocLE(x.stop, y.start) \/ LocLE(y.stop, x.start)

\* C14: what resolve returns is a conflict-free part of its input: every
\* returned replacement was given, no two returned replacements overlap, and
\* every replacement that was dropped overlaps one that was returned.
ResolveConflictFree ==
    resolveCall.pc = "returned" =>
        LET in == resolveCall.replacements
            out == resolveCall.resolved
            given == {in[k] : k \in 1..Len(in)}
            returned == {out[k] : k \in 1..Len(out)}
        IN  /\ returned \subseteq given
            /\ \A k \in 1..Len(out) : \A l \in 1..Len(out) :
                  k # l => NoConflict(out[k], out[l])
            /\ \A x \in given \ returned :
                  \E y \in returned : ~NoConflict(x, y)

\* C25: resolve orders the candidates by ascending start and, for equal
\* starts, by descending stop, so among replacements that share a start the
\* one with the greatest stop is the one accepted, whatever order they were
\* given in: no returned replacement has the start of a given one that stops
\* later.
ResolveKeepsLongest ==
    resolveCall.pc = "returned" =>
        LET in == resolveCall.replacements
            out == resolveCall.resolved
        IN  \A k \in 1..Len(out) : \A g \in 1..Len(in) :
               in[g].start = out[k].start => LocLE(in[g].stop, out[k].stop)

----------------------------------------------------------------------------
(* SourceFileManager (src/src/boggart/server/sourcefile.py): the text of a   *)
(* file, its line offsets, and the methods computed from them.  A text is a  *)
(* sequence of characters; offsets count from 0 as in the source, sequences  *)
(* from 1.                                                                   *)

NL == "\n"

\* The characters of a file.
Chars == {"a", "b", NL}

\* A file holds up to this many characters.
MaxTextLen == 3

Texts == SeqsUpTo(Chars, MaxTextLen)

\* The cache key (snapshot.name, filepath) of the file the line and apply
\* methods are called on.
TheFile == <<"snap", "a.c">>

\* s[a:b] for 0 <= a and 0 <= b: the characters at offsets a..b-1 that exist.
Slice(s, a, b) == SubSeq(s, a + 1, IF b < Len(s) THEN b ELSE Len(s))

RECURSIVE FindNewline(_, _)
\* contents.find('\n', from): the offset of the first newline at or after
\* from, or -1.
FindNewline(contents, from) ==
    IF from >= Len(contents) THEN -1
    ELSE IF contents[from + 1] = NL THEN from
    ELSE FindNewline(contents, from + 1)

RECURSIVE OffsetsFrom(_, _, _)
\* Lines 99-104: the loop over the newlines.
OffsetsFrom(contents, last_offset, offsets) ==
    LET next_line_break == FindNewline(contents, last_offset) IN
    IF next_line_break = -1 THEN offsets
    ELSE OffsetsFrom(contents, next_line_break + 1,
                     Append(offsets, next_line_break + 1))

\* Lines 96-104: the offset of the first character of each line.
LineOffsets(contents) == OffsetsFrom(contents, 0, <<0>>)

\* Lines 131-132 with one added to the offset.
LineColToOffsetShifted(line_offsets, line_num, col_num) ==
    line_offsets[line_num] + col_num + 1

\* Lines 131-132, given the line offsets: line_offsets[line_num - 1] + col_num.
LineColToOffset(line_offsets, line_num, col_num) ==
    line_offsets[line_num] + col_num

\* Lines 243-265 without the container: the text read_file returns for a
\* file the snapshot holds, from the cache when it is there.
FileText(key) ==
    IF key \in DOMAIN cacheFileContents THEN cacheFileContents[key]
    ELSE bgzFiles[key]

\* Lines 84-110: the line offsets, from the cache when they are there.
OffsetsOf(key) ==
    IF key \in DOMAIN cacheOffsets THEN cacheOffsets[key]
    ELSE LineOffsets(FileText(key))

\* The line and column that name the character at an offset of the text: the
\* last line that starts at or before it, and the distance from its start.
OffsetToLocation(contents, offset) ==
    LET offsets == LineOffsets(contents)
        line == CHOOSE l \in 1..Len(offsets) :
                    /\ offsets[l] <= offset
                    /\ l < Len(offsets) => offset < offsets[l + 1]
    IN  [line |-> line, col |-> offset - offsets[line]]

----------------------------------------------------------------------------
(* SourceFileManager.apply, checked on its own: the file and the             *)
(* replacements are drawn in the initial state, the step is the call.        *)

RECURSIVE ApplyInOrder(_, _, _)
\* Lines 333-344: each replacement in turn rewrites content, its offsets
\* taken from the line offsets of the file as read.
ApplyInOrder(line_offsets, content, replacements) ==
    IF replacements = <<>> THEN content
    ELSE LET replacement == Head(replacements)
             start_at == LineColToOffset(line_offsets,
                                         replacement.start.line,
                                         replacement.start.col)
             stop_at == LineColToOffset(line_offsets,
                                        replacement.stop.line,
                                        replacement.stop.col)
         IN  ApplyInOrder(line_offsets,
                          Slice(content, 0, start_at) \o replacement.text
                              \o Slice(content, stop_at, Len(content)),
                          Tail(replacements))

\* Lines 330-347.
Apply(key, replacements) ==
    ApplyInOrder(OffsetsOf(key), FileText(key), Resolve(replacements))

\* apply is called with a list of this many replacements.
ApplyLengths == 0..2

\* The texts a replacement puts in: nothing, or two characters.
ReplacementTexts == {<<>>, <<"x", "y">>}

\* The spans of a text, by offset, with the texts to put there: one of
\* ReplacementTexts, or the text the span holds.
Spans(contents) ==
    {[from |-> a, to |-> b, text |-> t] :
        <<a, b, t>> \in {abt \in (0..Len(contents)) \X (0..Len(contents))
                                    \X (ReplacementTexts \cup Texts) :
                            /\ abt[1] <= abt[2]
                            /\ \/ abt[3] \in ReplacementTexts
                               \/ abt[3] = Slice(contents, abt[1], abt[2])}}

\* The replacement of a span: its range as locations of the text.
AsReplacement(contents, span) ==
    [start |-> OffsetToLocation(contents, span.from),
     stop |-> OffsetToLocation(contents, span.to),
     text |-> span.text]

InitApply ==
    /\ ServerInit /\ FrontendIdle /\ ResolveIdle /\ ConfigIdle
    /\ cacheFileContents = <<>>
    /\ cacheOffsets = <<>>
    /\ \E contents \in Texts :
          /\ bgzFiles = (TheFile :> contents)
          /\ sourceCall \in
                {[op |-> "apply", pc |-> "called", spans |-> q,
                  result |-> <<>>] :
                    q \in {r \in SeqsUpTo(Spans(contents), 2) :
                              Len(r) \in ApplyLengths}}

\* apply(snapshot, filename, replacements): read_file caches the text, and
\* line_col_to_offset, called when a replacement is left, the line offsets.
ApplyReturn ==
    /\ sourceCall.pc = "called"
    /\ sourceCall.op = "apply"
    /\ LET contents == FileText(TheFile)
           replacements == [k \in 1..Len(sourceCall.spans) |->
                               AsReplacement(contents, sourceCall.spans[k])]
       IN  /\ sourceCall' = [sourceCall EXCEPT
                 !.pc = "returned", !.result = Apply(TheFile, replacements)]
           /\ cacheFileContents' = (TheFile :> contents)
           /\ cacheOffsets' = IF replacements = <<>> THEN cacheOffsets
                              ELSE (TheFile :> OffsetsOf(TheFile))
    /\ UNCHANGED <<server, frontend, resolveCall, bgzFiles, languages, operators,
                   configCall>>

NextApply == ApplyReturn

SpecApply == InitApply /\ [][NextApply]_vars

\* Span a ends at or before the start of span b.
Before(a, b) == a.to <= b.from

\* No two of the spans overlap.
SpansApart(spans) ==
    \A i \in 1..Len(spans) : \A j \in 1..Len(spans) :
        i # j => Before(spans[i], spans[j]) \/ Before(spans[j], spans[i])

\* The ways to list the spans from the start of the text to its end.
InTextOrder(spans) ==
    {[k \in 1..Len(spans) |-> spans[p[k]]] :
        p \in {q \in [1..Len(spans) -> 1..Len(spans)] :
                  \A i \in 1..Len(spans) : \A j \in 1..Len(spans) :
                      i < j => q[i] # q[j] /\ Before(spans[q[i]], spans[q[j]])}}

RECURSIVE Rewritten(_, _, _)
\* The text from offset pos on, with each of the spans, listed in text order,
\* replaced by its text and everything between them kept.
Rewritten(contents, pos, ordered) ==
    IF ordered = <<>> THEN Slice(contents, pos, Len(contents))
    ELSE Slice(contents, pos, Head(ordered).from) \o Head(ordered).text
            \o Rewritten(contents, Head(ordered).to, Tail(ordered))

\* Every span is replaced by the text it holds.
OwnText(contents, spans) ==
    \A k \in 1..Len(spans) :
        spans[k].text = Slice(contents, spans[k].from, spans[k].to)

\* apply has returned.
Applied == sourceCall.op = "apply" /\ sourceCall.pc = "returned"

\* C15: for pairwise non-overlapping replacements apply returns the original
\* text with each span replaced by its replacement's text and the rest
\* unchanged; replacing spans by their own text returns the text.
ApplyReplacesSpans ==
    Applied /\ SpansApart(sourceCall.spans) =>
        /\ \E ordered \in InTextOrder(sourceCall.spans) :
              sourceCall.result = Rewritten(bgzFiles[TheFile], 0, ordered)
        /\ OwnText(bgzFiles[TheFile], sourceCall.spans)
              => sourceCall.result = bgzFiles[TheFile]

\* No replacement of an empty span comes, in the list, after a replacement of
\* a non-empty span that starts at the same offset.
NoInsertionShadowed(spans) ==
    \A i \in 1..Len(spans) : \A j \in 1..Len(spans) :
        i < j => ~ /\ spans[i].from = spans[j].from
                   /\ spans[i].from < spans[i].to
                   /\ spans[j].from = spans[j].to

\* Where apply does rewrite every span: the lists in which no replacement of
\* an empty span follows a replacement of a non-empty span with the same
\* start.  (The other way round both are applied.)
ApplyReplacesSpansUnshadowed ==
    /\ Applied
    /\ SpansApart(sourceCall.spans)
    /\ NoInsertionShadowed(sourceCall.spans)
    => /\ \E ordered \in InTextOrder(sourceCall.spans) :
             sourceCall.result = Rewritten(bgzFiles[TheFile], 0, ordered)
       /\ OwnText(bgzFiles[TheFile], sourceCall.spans)
             => sourceCall.result = bgzFiles[TheFile]

\* apply has replaced two spans of a three-character text, given with the
\* earlier span first, by texts of another length.
ApplyReplacesSpansWitness ==
    /\ Applied
    /\ Len(sourceCall.spans) = 2
    /\ sourceCall.spans[1] = [from |-> 0, to |-> 1, text |-> <<"x", "y">>]
    /\ sourceCall.spans[2] = [from |-> 2, to |-> 3, text |-> <<>>]
    /\ bgzFiles[TheFile] = <<"a", NL, "b">>
    /\ sourceCall.result = <<"x", "y", NL>>

----------------------------------------------------------------------------
(* The caches of SourceFileManager, checked on their own: calls of           *)
(* read_file, _fetch_files, num_lines and _forget_file, one after another,   *)
(* on files of two snapshots.  Each step is a whole call; its record says    *)
(* how many containers it provisioned and how many times it asked BugZoo for *)
(* the file.  A container a call provisions is deleted before the call ends. *)

\* The cache keys (snapshot.name, filepath) in use, and those of files that
\* exist.
SourceKeys == {<<"s1", "a.c">>, <<"s2", "a.c">>, <<"s1", "missing.c">>}
PresentKeys == {<<"s1", "a.c">>, <<"s2", "a.c">>}

\* What the files may hold.
CacheTexts == {<<"a">>, <<"b", NL, "a">>}

SourceCall(op, key) ==
    [op |-> op, pc |-> "returned", key |-> key, exc |-> "none",
     result |-> <<>>, nprov |-> 0, ndestroy |-> 0, nread |-> 0]

\* m with key bound to v.
Bind(m, key, v) ==
    [k \in DOMAIN m \cup {key} |-> IF k = key THEN v ELSE m[k]]

\* m without key.
Unbind(m, key) == [k \in DOMAIN m \ {key} |-> m[k]]

\* read_file (231-265) that reads the file whether it is cached or not.
ReadFileNoLookup(key, ok) ==
    /\ IF ~ok
       THEN /\ sourceCall' = [SourceCall("read_file", key) EXCEPT
                  !.exc = "ProvisionError"]
            /\ UNCHANGED cacheFileContents
       ELSE IF key \in DOMAIN bgzFiles
       THEN /\ sourceCall' = [SourceCall("read_file", key) EXCEPT
                  !.result = bgzFiles[key], !.nprov = 1, !.ndestroy = 1,
                  !.nread = 1]
            /\ cacheFileContents' = Bind(cacheFileContents, key, bgzFiles[key])
       ELSE /\ sourceCall' = [SourceCall("read_file", key) EXCEPT
                  !.exc = "FileNotFound", !.nprov = 1, !.ndestroy = 1,
                  !.nread = 1]
            /\ UNCHANGED cacheFileContents
    /\ UNCHANGED <<server, frontend, resolveCall, bgzFiles, cacheOffsets, languages,
                   operators, configCall>>

\* read_file, lines 231-265: a cached text is returned at once (245-249);
\* otherwise a container is provisioned (252; ok says whether that works),
\* the file is read in it (254), a KeyError becoming FileNotFound (255-258),
\* the container is deleted in the finally clause (259-260), also when the
\* file is not found, and the text is cached (264).
ReadFile(key, ok) ==
    /\ IF key \in DOMAIN cacheFileContents
       THEN /\ sourceCall' = [SourceCall("read_file", key) EXCEPT
                  !.result = cacheFileContents[key]]
            /\ UNCHANGED cacheFileContents
       ELSE IF ~ok
       THEN /\ sourceCall' = [SourceCall("read_file", key) EXCEPT
                  !.exc = "ProvisionError"]
            /\ UNCHANGED cacheFileContents
       ELSE IF key \in DOMAIN bgzFiles
       THEN /\ sourceCall' = [SourceCall("read_file", key) EXCEPT
                  !.result = bgzFiles[key], !.nprov = 1, !.ndestroy = 1,
                  !.nread = 1]
            /\ cacheFileContents' = Bind(cacheFileContents, key, bgzFiles[key])
       ELSE /\ sourceCall' = [SourceCall("read_file", key) EXCEPT
                  !.exc = "FileNotFound", !.nprov = 1, !.ndestroy = 1,
                  !.nread = 1]
            /\ UNCHANGED cacheFileContents
    /\ UNCHANGED <<server, frontend, resolveCall, bgzFiles, cacheOffsets, languages,
                   operators, configCall>>

\* _fetch_files (54-74) with the del of line 74 after the loop instead of in
\* a finally clause: FileNotFound leaves the container.
FetchFilesNoFinally(key, ok) ==
    /\ IF ~ok
       THEN /\ sourceCall' = [SourceCall("fetch_files", key) EXCEPT
                  !.exc = "ProvisionError"]
            /\ UNCHANGED cacheFileContents
       ELSE IF key \in DOMAIN cacheFileContents
       THEN /\ sourceCall' = [SourceCall("fetch_files", key) EXCEPT
                  !.nprov = 1, !.ndestroy = 1]
            /\ UNCHANGED cacheFileContents
       ELSE IF key \in DOMAIN bgzFiles
       THEN /\ sourceCall' = [SourceCall("fetch_files", key) EXCEPT
                  !.nprov = 1, !.ndestroy = 1, !.nread = 1]
            /\ cacheFileContents' = Bind(cacheFileContents, key, bgzFiles[key])
       ELSE /\ sourceCall' = [SourceCall("fetch_files", key) EXCEPT
                  !.exc = "FileNotFound", !.nprov = 1, !.nread = 1]
            /\ UNCHANGED cacheFileContents
    /\ UNCHANGED <<server, frontend, resolveCall, bgzFiles, cacheOffsets,
                   languages, operators, configCall>>

\* _fetch_files, lines 54-74, for a list of one file: the container is
\* provisioned first (60), then the file is read unless it is cached, and
\* the finally clause deletes the container (73-74) however the loop ends.
FetchFiles(key, ok) ==
    /\ IF ~ok
       THEN /\ sourceCall' = [SourceCall("fetch_files", key) EXCEPT
                  !.exc = "ProvisionError"]
            /\ UNCHANGED cacheFileContents
       ELSE IF key \in DOMAIN cacheFileContents
       THEN /\ sourceCall' = [SourceCall("fetch_files", key) EXCEPT
                  !.nprov = 1, !.ndestroy = 1]
            /\ UNCHANGED cacheFileContents
       ELSE IF key \in DOMAIN bgzFiles
       THEN /\ sourceCall' = [SourceCall("fetch_files", key) EXCEPT
                  !.nprov = 1, !.ndestroy = 1,
                  !.nread = 1]
            /\ cacheFileContents' = Bind(cacheFileContents, key, bgzFiles[key])
       ELSE /\ sourceCall' = [SourceCall("fetch_files", key) EXCEPT
                  !.exc = "FileNotFound", !.nprov = 1, !.ndestroy = 1,
                  !.nread = 1]
            /\ UNCHANGED cacheFileContents
    /\ UNCHANGED <<server, frontend, resolveCall, bgzFiles, cacheOffsets, languages,
                   operators, configCall>>

\* num_lines, lines 31-40, with _line_offsets, lines 76-110: cached offsets
\* are returned at once; otherwise the file is read with read_file, which
\* may raise, and its offsets are computed and cached.
NumLines(key, ok) ==
    /\ IF key \in DOMAIN cacheOffsets
       THEN /\ sourceCall' = [SourceCall("num_lines", key) EXCEPT
                  !.result = Len(cacheOffsets[key])]
            /\ UNCHANGED <<cacheFileContents, cacheOffsets>>
       ELSE IF key \in DOMAIN cacheFileContents
       THEN /\ sourceCall' = [SourceCall("num_lines", key) EXCEPT
                  !.result = Len(LineOffsets(cacheFileContents[key]))]
            /\ cacheOffsets' =
                  Bind(cacheOffsets, key, LineOffsets(cacheFileContents[key]))
            /\ UNCHANGED cacheFileContents
       ELSE IF ~ok
       THEN /\ sourceCall' = [SourceCall("num_lines", key) EXCEPT
                  !.exc = "ProvisionError"]
            /\ UNCHANGED <<cacheFileContents, cacheOffsets>>
       ELSE IF key \in DOMAIN bgzFiles
       THEN /\ sourceCall' = [SourceCall("num_lines", key) EXCEPT
                  !.result = Len(LineOffsets(bgzFiles[key])),
                  !.nprov = 1, !.ndestroy = 1,
                  !.nread = 1]
            /\ cacheFileContents' = Bind(cacheFileContents, key, bgzFiles[key])
            /\ cacheOffsets' = Bind(cacheOffsets, key,
                                    LineOffsets(bgzFiles[key]))
       ELSE /\ sourceCall' = [SourceCall("num_lines", key) EXCEPT
                  !.exc = "FileNotFound", !.nprov = 1, !.ndestroy = 1,
                  !.nread = 1]
            /\ UNCHANGED <<cacheFileContents, cacheOffsets>>
    /\ UNCHANGED <<server, frontend, resolveCall, bgzFiles, languages, operators,
                   configCall>>

\* _forget_file (42-52) with the two dels the other way round: the text is
\* deleted first, and when there is none the KeyError ends the try.
ForgetFileContentsFirst(key) ==
    /\ sourceCall' = SourceCall("forget_file", key)
    /\ IF key \in DOMAIN cacheFileContents
       THEN /\ cacheFileContents' = Unbind(cacheFileContents, key)
            /\ cacheOffsets' = cacheOffsets
       ELSE UNCHANGED <<cacheFileContents, cacheOffsets>>
    /\ UNCHANGED <<server, frontend, resolveCall, bgzFiles, languages,
                   operators, configCall>>

\* _forget_file, lines 42-52: the offsets are deleted first; when there are
\* none the KeyError ends the try, and the cached text stays.
ForgetFile(key) ==
    /\ sourceCall' = SourceCall("forget_file", key)
    /\ IF key \in DOMAIN cacheOffsets
       THEN /\ cacheOffsets' = Unbind(cacheOffsets, key)
            /\ cacheFileContents' = Unbind(cacheFileContents, key)
       ELSE UNCHANGED <<cacheFileContents, cacheOffsets>>
    /\ UNCHANGED <<server, frontend, resolveCall, bgzFiles, languages, operators,
                   configCall>>

InitSource ==
    /\ ServerInit /\ FrontendIdle /\ ResolveIdle /\ ConfigIdle
    /\ bgzFiles \in [PresentKeys -> CacheTexts]
    /\ cacheFileContents = <<>>
    /\ cacheOffsets = <<>>
    /\ sourceCall = NoLibCall

NextSource ==
    \E key \in SourceKeys :
        \/ \E ok \in BOOLEAN : ReadFile(key, ok)
        \/ \E ok \in BOOLEAN : FetchFiles(key, ok)
        \/ \E ok \in BOOLEAN : NumLines(key, ok)
        \/ ForgetFile(key)

SpecSource == InitSource /\ [][NextSource]_vars

\* C16: a read of a cached file returns the cached text without provisioning
\* a container or asking for the file, and leaves the cache as it is; a read
\* of a file that is not cached asks for it, caches the text it returns, and
\* caches nothing when the file is not found; and a cached text stays the
\* same until _forget_file removes it.
ReadFileCached ==
    [][LET c == sourceCall' IN
       /\ c.op = "read_file" /\ c.key \in DOMAIN cacheFileContents
            => /\ c.exc = "none"
               /\ c.result = cacheFileContents[c.key]
               /\ c.nprov = 0 /\ c.nread = 0
               /\ UNCHANGED cacheFileContents
       /\ c.op = "read_file" /\ c.key \notin DOMAIN cacheFileContents
                             /\ c.exc # "ProvisionError"
            => /\ c.nprov = 1 /\ c.nread = 1
               /\ IF c.exc = "none"
                  THEN /\ c.key \in DOMAIN cacheFileContents'
                       /\ cacheFileContents'[c.key] = c.result
                       /\ c.result = bgzFiles[c.key]
                  ELSE /\ c.exc = "FileNotFound"
                       /\ UNCHANGED cacheFileContents
       /\ \A key \in DOMAIN cacheFileContents :
             IF key \in DOMAIN cacheFileContents'
             THEN cacheFileContents'[key] = cacheFileContents[key]
             ELSE c.op = "forget_file" /\ c.key = key
    ]_vars

\* A read has been served from the cache of one snapshot's file while the
\* same path of the other snapshot, holding another text, is cached too.
ReadFileCachedWitness ==
    /\ sourceCall.op = "read_file"
    /\ sourceCall.exc = "none"
    /\ sourceCall.nread = 0
    /\ sourceCall.key = <<"s1", "a.c">>
    /\ <<"s2", "a.c">> \in DOMAIN cacheFileContents
    /\ cacheFileContents[<<"s2", "a.c">>] # sourceCall.result

OffsetsCacheConsistent ==
    \A key \in DOMAIN cacheOffsets :
        /\ key \in DOMAIN cacheFileContents
        /\ LET contents == cacheFileContents[key]
               offsets == cacheOffsets[key]
           IN  /\ {offsets[k] : k \in DOMAIN offsets}
                     = {0} \cup {k \in 1..Len(contents) : contents[k] = NL}
               /\ \A k \in 1..(Len(offsets) - 1) : offsets[k] < offsets[k + 1]

\* The offsets of a two-line file are cached, and another file has just
\* been forgotten.
OffsetsCacheConsistentWitness ==
    /\ sourceCall.op = "forget_file"
    /\ sourceCall.key \notin DOMAIN cacheFileContents
    /\ \E key \in DOMAIN cacheOffsets :
          /\ key # sourceCall.key
          /\ cacheOffsets[key] = <<0, 2>>
          /\ cacheFileContents[key] = <<"b", NL, "a">>
    /\ sourceCall.key \in DOMAIN bgzFiles

\* m and n agree on every key but key.
SameButFor(m, n, key) ==
    /\ DOMAIN m \ {key} = DOMAIN n \ {key}
    /\ \A k \in DOMAIN m \ {key} : m[k] = n[k]

\* C27: after _forget_file(snapshot, filepath), whatever was cached before,
\* neither the contents cache nor the offsets cache holds an entry for the
\* key, the entries of all other keys are as they were, and the next read of
\* the file asks BugZoo for it again.
ForgetFileForgets ==
    [][LET c == sourceCall' IN
       /\ c.op = "forget_file"
             => /\ c.key \notin DOMAIN cacheFileContents'
                /\ c.key \notin DOMAIN cacheOffsets'
                /\ SameButFor(cacheFileContents, cacheFileContents', c.key)
                /\ SameButFor(cacheOffsets, cacheOffsets', c.key)
       /\ (sourceCall.op = "forget_file" /\ c.op = "read_file"
              /\ c.key = sourceCall.key /\ c.exc # "ProvisionError")
             => c.nread = 1
      ]_vars

----------------------------------------------------------------------------
(* The line methods of SourceFileManager, checked on their own: the text of  *)
(* the file is drawn in the initial state, and each step is a call of        *)
(* num_lines, line_col_to_offset or read_line on it.                         *)

\* The line and column numbers the methods are called with: every line a
\* text can have and one more, every column of a line and one more.
LineNumbers == 1..(MaxTextLen + 2)
ColNumbers == 0..(MaxTextLen + 1)

LineCall(op, line, col, keep) ==
    [op |-> op, pc |-> "returned", key |-> TheFile, line |-> line,
     col |-> col, keep |-> keep, exc |-> "none", result |-> <<>>]

\* line_col_to_offset, lines 112-136: _line_offsets reads the file and
\* caches text and offsets; a line past the last one is an IndexError.
LineColToOffsetCall(line_num, col_num) ==
    /\ sourceCall' =
          IF line_num > Len(OffsetsOf(TheFile))
          THEN [LineCall("line_col_to_offset", line_num, col_num, FALSE)
                    EXCEPT !.exc = "IndexError"]
          ELSE [LineCall("line_col_to_offset", line_num, col_num, FALSE)
                    EXCEPT !.result = LineColToOffset(OffsetsOf(TheFile),
                                                      line_num, col_num)]
    /\ cacheFileContents' = Bind(cacheFileContents, TheFile, FileText(TheFile))
    /\ cacheOffsets' = Bind(cacheOffsets, TheFile, OffsetsOf(TheFile))
    /\ UNCHANGED <<server, frontend, resolveCall, bgzFiles, languages, operators,
                   configCall>>

\* str.rstrip('\n') that strips nothing.
RStripNothing(s) == s

RECURSIVE RStripNewlines(_)
\* str.rstrip('\n'): without the newlines it ends with.
RStripNewlines(s) ==
    IF s # <<>> /\ s[Len(s)] = NL
    THEN RStripNewlines(SubSeq(s, 1, Len(s) - 1))
    ELSE s

\* Lines 285-291, given the text and its line offsets.
LineOf(content_file, line_offsets, num, keep_newline) ==
    LET start_at == line_offsets[num]
        content_line ==
            IF Len(line_offsets) = num
            THEN Slice(content_file, start_at, Len(content_file))
            ELSE Slice(content_file, start_at, line_offsets[num + 1])
    IN  IF keep_newline THEN content_line ELSE RStripNewlines(content_line)

\* read_line, lines 267-291.
ReadLineCall(num, keep_newline) ==
    /\ sourceCall' =
          IF num > Len(OffsetsOf(TheFile))
          THEN [LineCall("read_line", num, 0, keep_newline)
                    EXCEPT !.exc = "IndexError"]
          ELSE [LineCall("read_line", num, 0, keep_newline)
                    EXCEPT !.result = LineOf(FileText(TheFile),
                                             OffsetsOf(TheFile),
                                             num, keep_newline)]
    /\ cacheFileContents' = Bind(cacheFileContents, TheFile, FileText(TheFile))
    /\ cacheOffsets' = Bind(cacheOffsets, TheFile, OffsetsOf(TheFile))
    /\ UNCHANGED <<server, frontend, resolveCall, bgzFiles, languages, operators,
                   configCall>>

InitLines ==
    /\ ServerInit /\ FrontendIdle /\ ResolveIdle /\ ConfigIdle
    /\ bgzFiles \in {(TheFile :> contents) : contents \in Texts}
    /\ cacheFileContents = <<>>
    /\ cacheOffsets = <<>>
    /\ sourceCall = NoLibCall

NextLines ==
    \/ NumLines(TheFile, TRUE)
    \/ \E line_num \in LineNumbers, col_num \in ColNumbers :
          LineColToOffsetCall(line_num, col_num)
    \/ \E num \in LineNumbers, keep_newline \in BOOLEAN :
          ReadLineCall(num, keep_newline)

SpecLines == InitLines /\ [][NextLines]_vars

\* The offsets (from 1) of the newlines among the first n characters.
NewlinesIn(contents, n) == {k \in 1..n : contents[k] = NL}

\* The line the character at an offset is on: one more than the number of
\* newlines before it.
LineAt(contents, offset) == 1 + Cardinality(NewlinesIn(contents, offset))

\* Its column: how far it is from the last newline before it, or from the
\* start of the text.
ColAt(contents, offset) ==
    LET before == NewlinesIn(contents, offset) IN
    IF before = {} THEN offset
    ELSE offset - (CHOOSE k \in before : \A l \in before : l <= k)

\* The file has a character on line line_num at column col_num.
WithinLine(contents, line_num, col_num) ==
    \E o \in 0..(Len(contents) - 1) :
        LineAt(contents, o) = line_num /\ ColAt(contents, o) = col_num

\* C17: num_lines is one more than the number of newlines of the text, and
\* for a line and a column at which the file has a character,
\* line_col_to_offset returns the index of that character: the index whose
\* line and column, counted from the text, are the ones given.
LineIndexAgrees ==
    LET contents == bgzFiles[TheFile] IN
    /\ sourceCall.op = "num_lines"
          => sourceCall.result
                 = 1 + Cardinality(NewlinesIn(contents, Len(contents)))
    /\ /\ sourceCall.op = "line_col_to_offset"
       /\ WithinLine(contents, sourceCall.line, sourceCall.col)
       => /\ sourceCall.exc = "none"
          /\ sourceCall.result \in 0..(Len(contents) - 1)
          /\ LineAt(contents, sourceCall.result) = sourceCall.line
          /\ ColAt(contents, sourceCall.result) = sourceCall.col

\* line_col_to_offset has been asked for the first character of the second
\* line of "a\nb" and has answered 2.
LineIndexAgreesWitness ==
    /\ bgzFiles[TheFile] = <<"a", NL, "b">>
    /\ sourceCall.op = "line_col_to_offset"
    /\ sourceCall.line = 2 /\ sourceCall.col = 0
    /\ sourceCall.result = 2

\* The characters of line num, its newline included: those of the text that
\* come after num - 1 newlines and not after num.
CharsOfLine(contents, num) ==
    LET on == {o \in 0..(Len(contents) - 1) : LineAt(contents, o) = num}
        first == CHOOSE o \in on : \A q \in on : o <= q
    IN  IF on = {} THEN <<>>
        ELSE [k \in 1..Cardinality(on) |-> contents[first + k]]

RECURSIVE JoinLines(_, _, _)
\* read_line(1, keep_newline=True) .. read_line(n, keep_newline=True), end
\* to end.
JoinLines(contents, line_offsets, n) ==
    IF n = 0 THEN <<>>
    ELSE JoinLines(contents, line_offsets, n - 1)
            \o LineOf(contents, line_offsets, n, TRUE)

\* C18: for a line the file has, read_line returns the characters of that
\* line, with its newline when keep_newline is set and the line has one and
\* without it otherwise, the last line running to the end of the text; and
\* the lines read with keep_newline, end to end, are the file.
ReadLineExact ==
    LET contents == bgzFiles[TheFile]
        lines == 1 + Cardinality(NewlinesIn(contents, Len(contents)))
        line == CharsOfLine(contents, sourceCall.line)
    IN  sourceCall.op = "read_line" /\ sourceCall.line <= lines
        => /\ sourceCall.exc = "none"
           /\ sourceCall.result =
                 IF ~sourceCall.keep /\ line # <<>> /\ line[Len(line)] = NL
                 THEN SubSeq(line, 1, Len(line) - 1)
                 ELSE line
           /\ JoinLines(FileText(TheFile), OffsetsOf(TheFile), lines)
                 = contents

\* read_line has returned the first line of "a\nb" without its newline.
ReadLineExactWitness ==
    /\ bgzFiles[TheFile] = <<"a", NL, "b">>
    /\ sourceCall.op = "read_line"
    /\ sourceCall.line = 1 /\ ~sourceCall.keep
    /\ sourceCall.result = <<"a">>

----------------------------------------------------------------------------
(* The catalogues of src/src/boggart/config: Languages and Operators, built  *)
(* as from_defs builds them, one add after another, each catalogue replaced  *)
(* by the one add returns.  A language is its name and its file endings, an  *)
(* operator its name and the names of the languages it supports.             *)

LanguageNames == {"c", "cpp"}
FileEndings == {".c", ".h"}
OperatorNames == {"negate", "swap"}

RECURSIVE EndingsLoop(_, _, _)
\* languages.py 115-116: for each language, endings.union(...) builds the
\* union and the statement drops it; endings is not updated.
EndingsLoop(catalogue, names, endings) ==
    IF names = {} THEN endings
    ELSE LET name == CHOOSE n \in names : TRUE
             dropped == endings \cup catalogue[name]
         IN  EndingsLoop(catalogue, names \ {name}, endings)

\* languages.py 108-117: supported_file_endings.
SupportedFileEndings(catalogue) ==
    EndingsLoop(catalogue, DOMAIN catalogue, {})

\* Languages.from_defs 28-33 with Languages.add 46-71: the endings in use,
\* less those of the language being overwritten; IllegalConfig when the new
\* language has one of them; otherwise the catalogue with the language.
LanguagesAdd(name, file_endings) ==
    LET endings == IF name \in DOMAIN languages
                   THEN SupportedFileEndings(languages) \ languages[name]
                   ELSE SupportedFileEndings(languages)
        c == [op |-> "languages.add", pc |-> "returned", name |-> name,
              given |-> file_endings, receiver |-> languages,
              exc |-> "none"]
    IN  /\ IF file_endings \cap endings # {}
           THEN /\ configCall' = [c EXCEPT !.exc = "IllegalConfig"]
                /\ UNCHANGED languages
           ELSE /\ configCall' = c
                /\ languages' = Bind(languages, name, file_endings)
        /\ UNCHANGED <<server, frontend, resolveCall, bgzFiles, cacheFileContents,
                       cacheOffsets, sourceCall, operators>>

\* Operators.add without the check of lines 67-71.
OperatorsAddUnchecked(name, supported) ==
    /\ configCall' = [op |-> "operators.add", pc |-> "returned",
                      name |-> name, given |-> supported,
                      against |-> DOMAIN languages, receiver |-> operators,
                      after |-> operators, exc |-> "none"]
    /\ operators' = Bind(operators, name, supported)
    /\ UNCHANGED <<server, frontend, resolveCall, bgzFiles, cacheFileContents,
                   cacheOffsets, sourceCall, languages>>

\* Operators.from_defs 35-38 with Operators.add 51-76: LanguageNotFound when
\* a language of the operator is not in the Languages catalogue given
\* (Languages.__contains__, languages.py 89-106); otherwise a copy of the
\* receiver's dictionary gets the operator and is returned as a new
\* catalogue.  after is the receiver's dictionary when the call ends.
OperatorsAdd(name, supported) ==
    LET c == [op |-> "operators.add", pc |-> "returned", name |-> name,
              given |-> supported, against |-> DOMAIN languages,
              receiver |-> operators, after |-> operators, exc |-> "none"]
    IN  /\ IF \E supported_language \in supported :
                 supported_language \notin DOMAIN languages
           THEN /\ configCall' = [c EXCEPT !.exc = "LanguageNotFound"]
                /\ UNCHANGED operators
           ELSE /\ configCall' = c
                /\ operators' = Bind(operators, name, supported)
        /\ UNCHANGED <<server, frontend, resolveCall, bgzFiles, cacheFileContents,
                       cacheOffsets, sourceCall, languages>>

InitConfig ==
    /\ ServerInit /\ FrontendIdle /\ ResolveIdle /\ SourceIdle
    /\ languages = <<>>
    /\ operators = <<>>
    /\ configCall = NoLibCall

NextConfig ==
    \/ \E name \in LanguageNames, file_endings \in SUBSET FileEndings :
          LanguagesAdd(name, file_endings)
    \/ \E name \in OperatorNames, supported \in SUBSET LanguageNames \ {{}} :
          OperatorsAdd(name, supported)

SpecConfig == InitConfig /\ [][NextConfig]_vars

\* C19: adding a language that shares a file ending with another language of
\* the catalogue raises IllegalConfig, so the languages of a catalogue have
\* pairwise disjoint file endings.
EndingsDisjoint ==
    /\ \A a \in DOMAIN languages : \A b \in DOMAIN languages :
          a # b => languages[a] \cap languages[b] = {}
    /\ configCall.op = "languages.add"
          => LET old == configCall.receiver IN
             (\E other \in DOMAIN old \ {configCall.name} :
                  old[other] \cap configCall.given # {})
                => configCall.exc = "IllegalConfig"

\* C20: Operators.add raises LanguageNotFound when the operator names a
\* language that the language set does not hold; otherwise it returns the
\* receiver's operators with the new one added under its name; either way
\* the receiver is as it was.  So every operator of a catalogue supports only
\* languages of the language set.
OperatorsAddChecked ==
    /\ configCall.op = "operators.add"
          => /\ configCall.after = configCall.receiver
             /\ IF configCall.given \subseteq configCall.against
                THEN /\ configCall.exc = "none"
                     /\ operators = Bind(configCall.receiver, configCall.name,
                                         configCall.given)
                ELSE /\ configCall.exc = "LanguageNotFound"
                     /\ operators = configCall.receiver
    /\ \A name \in DOMAIN operators : operators[name] \subseteq DOMAIN languages

\* An operator for two languages has been refused by a catalogue that holds
\* an operator, against a language set that holds one of the two.
OperatorsAddCheckedWitness ==
    /\ configCall.op = "operators.add"
    /\ configCall.exc = "LanguageNotFound"
    /\ configCall.given = {"c", "cpp"}
    /\ DOMAIN languages = {"c"}
    /\ DOMAIN operators = {"swap"}

----------------------------------------------------------------------------
(* Installation.mutations (src/src/boggart/server/installation.py) with the  *)
(* transformations and constraints it evaluates (src/src/boggart/core).  A   *)
(* step is a whole call, the generator it returns run to its end.  Rooibos   *)
(* is a collaborator: what it matches for each template is drawn with the    *)
(* call, every match lying within the text.                                  *)

\* str.isspace for one character.
Whitespace == {" ", NL}

RECURSIVE LStrip(_)
\* s.lstrip()
LStrip(s) ==
    IF s # <<>> /\ Head(s) \in Whitespace THEN LStrip(Tail(s)) ELSE s

RECURSIVE RStrip(_)
\* s.rstrip()
RStrip(s) ==
    IF s # <<>> /\ s[Len(s)] \in Whitespace
    THEN RStrip(SubSeq(s, 1, Len(s) - 1))
    ELSE s

\* s.strip()
Strip(s) == LStrip(RStrip(s))

\* s.endswith(opt)
EndsWith(s, opt) ==
    /\ Len(opt) <= Len(s)
    /\ SubSeq(s, Len(s) - Len(opt) + 1, Len(s)) = opt

\* An argument left out is None; one given is the value in a tuple.
None == <<>>
Some(v) == <<v>>

\* The template holes, and what rooibos may capture for one.
Holes == {"x"}
Fragments == {<<"a">>, <<"a", NL, "b">>}

\* constraint.py 38-46 and 66-77: the two kinds of constraint.
IsSingleTerm(hole) ==
    [type |-> "is-single-term", hole |-> hole, options |-> {}]
PrecededBy(options) ==
    [type |-> "preceded-by", hole |-> "", options |-> options]

\* constraint.py 48-59: IsSingleTerm.is_satisfied_by.
IsSingleTermSatisfiedBy(hole, match) ==
    /\ hole \in DOMAIN match.environment
    /\ LET content == Strip(match.environment[hole])
       IN  ~ \E k \in 1..Len(content) : content[k] \in Whitespace

\* constraint.py 79-86: PrecededBy.is_satisfied_by.
PrecededBySatisfiedBy(options, content_file, offset_start) ==
    LET preceded_by == RStrip(Slice(content_file, 0, offset_start))
    IN  \E opt \in options : EndsWith(preceded_by, opt)

\* The dispatch on the class of the constraint.
IsSatisfiedBy(c, match, content_file, offset_start, offset_stop) ==
    IF c.type = "is-single-term"
    THEN IsSingleTermSatisfiedBy(c.hole, match)
    ELSE PrecededBySatisfiedBy(c.options, content_file, offset_start)

\* transformation.py 39-53: Transformation.satisfies_constraints.
SatisfiesConstraints(transformation, match, content_file, offset_start, offset_stop) ==
    \A c \in transformation.constraints :
        IsSatisfiedBy(c, match, content_file, offset_start, offset_stop)

\* The transformations of each operator (operator.py 64-69): a match
\* template and constraints (transformation.py 20-23).
Templates == {"t0", "t1", "t2"}
TransformationsOf ==
    [name \in OperatorNames |->
        IF name = "negate"
        THEN <<[match |-> "t0", constraints |-> {IsSingleTerm("x")}],
               [match |-> "t1",
                constraints |-> {IsSingleTerm("x"), PrecededBy({<<"a">>})}]>>
        ELSE <<[match |-> "t2", constraints |-> {}]>>]

\* The operators of a catalogue in the order __iter__ gives them
\* (operators.py 84-88), the order they were added in.
OperatorList(catalogue) ==
    LET order == <<"negate", "swap">>
        RECURSIVE From(_)
        From(k) == IF k > Len(order) THEN <<>>
                   ELSE IF order[k] \in DOMAIN catalogue
                        THEN <<order[k]>> \o From(k + 1)
                        ELSE From(k + 1)
    IN  From(1)

\* The files the finder is asked about and those the snapshot holds, with what
\* os.path.splitext gives as their suffix (languages.py 134).
FinderFiles == {"a.c", "a.txt", "missing.c"}
FinderSnapshot == {"a.c", "a.txt"}
SuffixOf == [f \in FinderFiles |-> IF f = "a.txt" THEN ".txt" ELSE ".c"]
FinderText == <<"a", NL, "b">>

\* languages.py 119-143: Languages.detect; "none" stands for raising
\* LanguageNotDetected.
Detect(filename) ==
    LET suffix == SuffixOf[filename]
        found == {l \in DOMAIN languages : suffix \in languages[l]}
    IN  IF found = {} THEN "none" ELSE CHOOSE l \in found : TRUE

\* What rooibos may report for a text: matches that start at a character and run to
\* the end of the text, named by the line and column of their ends, with or without a captured hole.
MatchesIn(text) ==
    {[start |-> OffsetToLocation(text, from),
      stop |-> OffsetToLocation(text, Len(text)),
      environment |-> env] :
        from \in 0..(Len(text) - 1),
        env \in {<<>>} \cup [Holes -> Fragments]}

\* installation.py 175-193: match_to_mutation.
MatchToMutation(filepath, op_name, transformation_index, match) ==
    [operator |-> op_name,
     transformation_index |-> transformation_index,
     location |-> [filename |-> filepath,
                   start |-> [line |-> match.start.line,
                              col |-> match.start.col],
                   stop |-> [line |-> match.stop.line,
                             col |-> match.stop.col]],
     arguments |-> match.environment]

RECURSIVE MatchLoop(_, _, _, _, _, _, _)
\* installation.py 216-244: the loop over the matches of one template.
MatchLoop(filepath, text, op_name, idx, transformation, matches, restrict_to_lines) ==
    IF matches = <<>> THEN <<>>
    ELSE LET match == Head(matches)
             line == match.start.line
             rest == MatchLoop(filepath, text, op_name, idx, transformation,
                               Tail(matches), restrict_to_lines)
             line_offsets == LineOffsets(text)
             offset_start == LineColToOffset(line_offsets, match.start.line,
                                             match.start.col)
             offset_stop == LineColToOffset(line_offsets, match.stop.line,
                                            match.stop.col)
         IN  IF /\ restrict_to_lines # None
                /\ restrict_to_lines[1] # {}
                /\ line \notin restrict_to_lines[1]
             THEN rest
             ELSE IF SatisfiesConstraints(transformation, match, text,
                                          offset_start, offset_stop)
                  THEN <<MatchToMutation(filepath, op_name, idx, match)>>
                       \o rest
                  ELSE rest

RECURSIVE TransformationLoop(_, _, _, _, _, _)
\* installation.py 213-216: the loop over the transformations of one
\* operator, idx counting from 0.
TransformationLoop(filepath, text, op_name, idx, found, restrict_to_lines) ==
    LET transformations == TransformationsOf[op_name] IN
    IF idx >= Len(transformations) THEN <<>>
    ELSE LET transformation == transformations[idx + 1]
         IN  MatchLoop(filepath, text, op_name, idx, transformation,
                       found[transformation.match], restrict_to_lines)
             \o TransformationLoop(filepath, text, op_name, idx + 1, found,
                                   restrict_to_lines)

RECURSIVE OperatorLoop(_, _, _, _, _)
\* installation.py 211-212: the loop over the operators.
OperatorLoop(filepath, text, ops, found, restrict_to_lines) ==
    IF ops = <<>> THEN <<>>
    ELSE TransformationLoop(filepath, text, Head(ops), 0, found,
                            restrict_to_lines)
         \o OperatorLoop(filepath, text, Tail(ops), found, restrict_to_lines)

\* installation.py 195-199: operators = list(self.operators) when none are
\* given.
OperatorsUsed(ops) ==
    IF ops = None THEN OperatorList(operators) ELSE ops[1]

\* installation.py 205-208: the language given, or the one detected.
LanguageUsed(filepath, language) ==
    IF language = "None" THEN Detect(filepath) ELSE language

\* installation.py 150-244: Installation.mutations, the generator consumed:
\* the exception it raises (FileNotFound from read_file, line 202, before
\* LanguageNotDetected from detect, line 208) and the mutations it yields.
Mutations(filepath, language, ops, restrict_to_lines, text, found) ==
    IF filepath \notin FinderSnapshot
    THEN [exc |-> "FileNotFound", result |-> <<>>]
    ELSE IF LanguageUsed(filepath, language) = "none"
    THEN [exc |-> "LanguageNotDetected", result |-> <<>>]
    ELSE [exc |-> "none",
          result |-> OperatorLoop(filepath, text, OperatorsUsed(ops), found,
                                  restrict_to_lines)]

\* What is asked for: a language or none, operators or none, lines or none.
\* Rooibos reports one match of a template, or none.
LanguageArgs == {"None", "cpp"}
OperatorArgs == {None, Some(<<"swap">>), Some(<<"swap", "negate">>)}
LineArgs == {None, Some({}), Some({1}), Some({2})}

\* The catalogues of the installation (two languages, and operators that
\* each support some of them) and a call with its arguments, rooibos'
\* answers among them.
InitMutations ==
    /\ ServerInit /\ ResolveIdle /\ SourceIdle
    /\ languages = [l \in LanguageNames |->
                       IF l = "c" THEN {".c"} ELSE {".cpp"}]
    /\ operators \in {[name \in OperatorNames |->
                          IF name = "negate" THEN {"c"} ELSE supported] :
                          supported \in (SUBSET LanguageNames) \ {{}}}
    /\ configCall = NoLibCall
    /\ wireCall = NoLibCall
    /\ mutationsCall \in
          [op : {"mutations"}, pc : {"called"}, filepath : FinderFiles,
           language : LanguageArgs, operators : OperatorArgs,
           restrict_to_lines : LineArgs, text : {FinderText},
           found : [Templates -> SeqsUpTo(MatchesIn(FinderText), 1)],
           exc : {"none"}, result : {<<>>}]

MutationsReturn ==
    /\ mutationsCall.op = "mutations"
    /\ mutationsCall.pc = "called"
    /\ LET c == mutationsCall
           r == Mutations(c.filepath, c.language, c.operators,
                          c.restrict_to_lines, c.text, c.found)
       IN  mutationsCall' = [c EXCEPT !.pc = "returned", !.exc = r.exc,
                                      !.result = r.result]
    /\ UNCHANGED <<server, resolveCall, bgzFiles, cacheFileContents,
                   cacheOffsets, sourceCall, languages, operators,
                   configCall, wireCall>>

NextMutations == MutationsReturn

SpecMutations == InitMutations /\ [][NextMutations]_vars


\* The call has returned the mutations it found.
Found == mutationsCall.op = "mutations" /\ mutationsCall.pc = "returned"
            /\ mutationsCall.exc = "none"

\* The operator's transformation at idx, for this match, is among the
\* mutations returned.
Emitted(name, idx, match) ==
    \E k \in DOMAIN mutationsCall.result :
        mutationsCall.result[k] =
            MatchToMutation(mutationsCall.filepath, name, idx, match)

\* The line filter lets the match through, and the match satisfies every
\* constraint of the transformation.
Passes(transformation, match, lines) ==
    /\ lines = None \/ match.start.line \in lines[1]
    /\ \A c \in transformation.constraints :
          IsSatisfiedBy(c, match, mutationsCall.text,
              LineColToOffset(LineOffsets(mutationsCall.text),
                              match.start.line, match.start.col),
              LineColToOffset(LineOffsets(mutationsCall.text),
                              match.stop.line, match.stop.col))

\* C21: when the request names no operators, the operators used are those
\* registered for the resolved language: every mutation returned is of an
\* operator that supports the language, and no operator that supports it is
\* left out.
DefaultOperatorsForLanguage ==
    (Found /\ mutationsCall.operators = None)
    => LET resolved == LanguageUsed(mutationsCall.filepath,
                                    mutationsCall.language)
       IN  /\ \A k \in DOMAIN mutationsCall.result :
                 resolved \in operators[mutationsCall.result[k].operator]
           /\ \A name \in DOMAIN operators :
                 resolved \in operators[name]
                 => \A idx \in 0..(Len(TransformationsOf[name]) - 1) :
                       LET transformation == TransformationsOf[name][idx + 1]
                           matches == mutationsCall.found[transformation.match]
                       IN  \A m \in DOMAIN matches :
                              Passes(transformation, matches[m],
                                     mutationsCall.restrict_to_lines)
                              => Emitted(name, idx, matches[m])

\* The mutations a call returns are those of the matches that pass: one for
\* each match of each transformation of each operator used that passes(..),
\* none for a match that does not, and nothing else; each carries the
\* operator's name, the transformation's index, the match's location and
\* what the match captured.
EmitsWhat(passes(_, _, _)) ==
    LET used == {OperatorsUsed(mutationsCall.operators)[k] :
                    k \in DOMAIN OperatorsUsed(mutationsCall.operators)}
        candidates ==
            {<<name, idx, match>> \in
                used \X (0..(Cardinality(Templates) - 1))
                     \X MatchesIn(mutationsCall.text) :
                /\ idx < Len(TransformationsOf[name])
                /\ \E m \in DOMAIN mutationsCall.found[
                                 TransformationsOf[name][idx + 1].match] :
                      mutationsCall.found[
                          TransformationsOf[name][idx + 1].match][m] = match}
    IN  /\ \A c \in candidates :
              Emitted(c[1], c[2], c[3])
              <=> passes(TransformationsOf[c[1]][c[2] + 1], c[3],
                         mutationsCall.restrict_to_lines)
        /\ \A k \in DOMAIN mutationsCall.result :
              \E c \in candidates :
                 /\ mutationsCall.result[k].operator = c[1]
                 /\ mutationsCall.result[k].transformation_index = c[2]
                 /\ mutationsCall.result[k].location.start = c[3].start
                 /\ mutationsCall.result[k].location.stop = c[3].stop
                 /\ mutationsCall.result[k].location.filename
                       = mutationsCall.filepath
                 /\ mutationsCall.result[k].arguments = c[3].environment

\* C22: Installation.mutations emits a mutation for a match if and only if
\* no line filter was supplied or the match's start line is in the filter,
\* and every constraint of the match's transformation is satisfied; each
\* mutation carries the operator name, the index of the transformation, the
\* match's location and its captured arguments.
MutationsEmittedIff == Found => EmitsWhat(Passes)

\* As Passes, an empty line filter counting as none.
PassesOrEmptyFilter(transformation, match, lines) ==
    Passes(transformation, match, IF lines = Some({}) THEN None ELSE lines)

\* The same with an empty line filter read as no filter, which is what the
\* test of installation.py 218 does.
MutationsEmittedIffFilterNonEmpty == Found => EmitsWhat(PassesOrEmptyFilter)

----------------------------------------------------------------------------
(* IsSingleTerm.is_satisfied_by, checked on its own: the hole of the         *)
(* constraint and what the match captured are drawn in the initial state,    *)
(* the step is the call.  Rooibos leaves a hole that captured the empty text *)
(* out of the environment (constraint.py 54), so a captured fragment has at  *)
(* least one character.                                                      *)

FragmentChars == {"a", " ", NL}
MaxFragmentLen == 3
CapturedFragments == SeqsUpTo(FragmentChars, MaxFragmentLen) \ {<<>>}
EnvironmentHoles == {"x", "y"}

\* What a match may have captured: a fragment for some of the holes.
Environments ==
    {<<>>} \cup [{"x"} -> CapturedFragments]
           \cup [{"y"} -> {<<"a">>, <<" ">>}]
           \cup {[h \in EnvironmentHoles |-> IF h = "x" THEN f ELSE <<"a">>] :
                    f \in CapturedFragments}

InitConstraint ==
    /\ ServerInit /\ ResolveIdle /\ SourceIdle /\ ConfigIdle
    /\ wireCall = NoLibCall
    /\ mutationsCall \in
          [op : {"is_satisfied_by"}, pc : {"called"}, hole : EnvironmentHoles,
           environment : Environments, result : {FALSE}]

IsSatisfiedByReturn ==
    /\ mutationsCall.op = "is_satisfied_by"
    /\ mutationsCall.pc = "called"
    /\ mutationsCall' =
          [mutationsCall EXCEPT
              !.pc = "returned",
              !.result = IsSingleTermSatisfiedBy(
                             mutationsCall.hole,
                             [environment |-> mutationsCall.environment])]
    /\ UNCHANGED <<server, resolveCall, bgzFiles, cacheFileContents,
                   cacheOffsets, sourceCall, languages, operators,
                   configCall, wireCall>>

NextConstraint == IsSatisfiedByReturn

SpecConstraint == InitConstraint /\ [][NextConstraint]_vars

\* The text has a whitespace character.
HasWhitespace(s) == \E k \in DOMAIN s : s[k] \in Whitespace

\* C23: IsSingleTerm(hole) rejects a match when the hole captured nothing or
\* when the captured fragment contains a whitespace character, and accepts it
\* when the captured fragment is a single token without whitespace.
IsSingleTermNoWhitespace ==
    (mutationsCall.op = "is_satisfied_by" /\ mutationsCall.pc = "returned")
    => LET hole == mutationsCall.hole
           env == mutationsCall.environment
       IN  /\ hole \notin DOMAIN env => ~mutationsCall.result
           /\ (hole \in DOMAIN env /\ HasWhitespace(env[hole]))
                 => ~mutationsCall.result
           /\ (hole \in DOMAIN env /\ ~HasWhitespace(env[hole]))
                 => mutationsCall.result

----------------------------------------------------------------------------
(* What goes over the wire between the server and the client: a Mutation as  *)
(* the dictionary of to_dict, read back by from_dict                         *)
(* (src/src/boggart/core/mutation.py), its location as the string of         *)
(* FileLocationRange.__str__, read back by from_string                       *)
(* (src/src/boggart/core/location.py).  A string is a sequence of            *)
(* characters.  The value is drawn in the initial state; to_dict is one      *)
(* step and from_dict the next.                                              *)

Digits == <<"0", "1", "2", "3", "4", "5", "6", "7", "8", "9">>

RECURSIVE FormatInt(_)
\* str(n) for n >= 0, as "{}".format(n) gives it.
FormatInt(n) ==
    IF n < 10 THEN <<Digits[n + 1]>>
    ELSE FormatInt(n \div 10) \o <<Digits[(n % 10) + 1]>>

RECURSIVE ParseDigits(_, _)
ParseDigits(s, acc) ==
    IF s = <<>> THEN acc
    ELSE LET d == {k \in 1..10 : Digits[k] = Head(s)} IN
         IF d = {} THEN -1
         ELSE ParseDigits(Tail(s), 10 * acc + (CHOOSE k \in d : TRUE) - 1)

\* int(s) for a string of decimal digits; -1 stands for ValueError.
ParseInt(s) == IF s = <<>> THEN -1 ELSE ParseDigits(s, 0)

\* The places of s where sep starts.
IndicesOf(s, sep) ==
    {k \in 1..(Len(s) - Len(sep) + 1) : SubSeq(s, k, k + Len(sep) - 1) = sep}

\* s.partition(sep): what is before the first sep and what is after it; all
\* of s and the empty string when sep is not in s.
Partition(s, sep) ==
    LET at == IndicesOf(s, sep) IN
    IF at = {} THEN <<s, <<>>>>
    ELSE LET k == CHOOSE i \in at : \A j \in at : i <= j
         IN  <<SubSeq(s, 1, k - 1), SubSeq(s, k + Len(sep), Len(s))>>

\* s.rpartition(sep): what is before the last sep and what is after it; the
\* empty string and all of s when sep is not in s.
RPartition(s, sep) ==
    LET at == IndicesOf(s, sep) IN
    IF at = {} THEN <<<<>>, s>>
    ELSE LET k == CHOOSE i \in at : \A j \in at : i >= j
         IN  <<SubSeq(s, 1, k - 1), SubSeq(s, k + Len(sep), Len(s))>>

\* location.py 33-34: Location.__str__.
LocationStr(loc) == FormatInt(loc.line) \o <<":">> \o FormatInt(loc.col)

\* location.py 16-19: Location.from_string.
LocationFromString(s) ==
    LET parts == Partition(s, <<":">>)
    IN  [line |-> ParseInt(parts[1]), col |-> ParseInt(parts[2])]

\* location.py 84-85 and 123-124: "{}::{}" in "{}@{}".
FileLocationRangeStr(at) ==
    at.filename \o <<"@">> \o LocationStr(at.start) \o <<":", ":">>
                \o LocationStr(at.stop)

\* FileLocationRange.from_string splitting at the first "@".
FileLocationRangeFromFirstAt(s) ==
    LET file_range == Partition(s, <<"@">>)
        start_stop == Partition(file_range[2], <<":", ":">>)
    IN  [filename |-> file_range[1],
         start |-> LocationFromString(start_stop[1]),
         stop |-> LocationFromString(start_stop[2])]

\* location.py 106-110 with 74-79: FileLocationRange.from_string.
FileLocationRangeFromString(s) ==
    LET file_range == RPartition(s, <<"@">>)
        start_stop == Partition(file_range[2], <<":", ":">>)
    IN  [filename |-> file_range[1],
         start |-> LocationFromString(start_stop[1]),
         stop |-> LocationFromString(start_stop[2])]

\* int raised ValueError for one of the four numbers.
ParseFailed(at) ==
    -1 \in {at.start.line, at.start.col, at.stop.line, at.stop.col}

\* mutation.py 99-109: Mutation.to_dict.
MutationToDict(m) ==
    [operator |-> m.operator,
     transformation_index |-> m.transformation_index,
     location |-> FileLocationRangeStr(m.location),
     arguments |-> m.arguments]

\* mutation.py 14-42: Mutation.from_dict, for a dictionary with the four
\* properties.
MutationFromDict(d) ==
    LET location == FileLocationRangeFromString(d.location) IN
    IF ParseFailed(location)
    THEN [exc |-> "BadFormat"]
    ELSE [exc |-> "none",
          mutation |-> [operator |-> d.operator,
                        transformation_index |-> d.transformation_index,
                        location |-> location,
                        arguments |-> d.arguments]]

\* The file names, line and column numbers of the mutations sent.
FileNameChars == {"a", "@", ":"}
MaxFileNameLen == 2
WireLocations == [line : {1, 12}, col : {0, 10}]

WireMutations ==
    [operator : OperatorNames,
     transformation_index : 0..1,
     location : [filename : SeqsUpTo(FileNameChars, MaxFileNameLen),
                 start : WireLocations, stop : WireLocations],
     arguments : {<<>>} \cup [Holes -> Fragments]]

\* The errors a handler of the server raises to the client: the subclasses
\* of ClientServerError (exceptions.py 122-395), each with the key its data
\* property gives the identifying value under ("" when it has no data).
ErrorDataKey ==
    [BuildFailure |-> "", BadFormat |-> "reason",
     UnexpectedServerError |-> "message",
     OperatorNameAlreadyExists |-> "name", LanguageNotFound |-> "name",
     LanguageNotDetected |-> "filename", OperatorNotFound |-> "name",
     SnapshotNotFound |-> "name", MutantNotFound |-> "uuid",
     FileNotFound |-> "name"]
ServerErrorKinds == DOMAIN ErrorDataKey
ErrorValues == {"a.c", "b"}

\* The classes ClientServerError.from_dict knows by name
\* (exceptions.py 80-86).
DecodableKinds ==
    {"OperatorNameAlreadyExists", "LanguageNotFound", "BadConfigFile",
     "IllegalConfig", "UnexpectedServerError"}

\* exceptions.py 102-104 and the data properties of the subclasses.
ErrorData(err) ==
    IF ErrorDataKey[err.kind] = "" THEN <<>>
    ELSE [k \in {ErrorDataKey[err.kind]} |-> err.value]

\* exceptions.py 106-119: ClientServerError.to_response, the body of the
\* response; data is left out when it is empty.
ToResponse(err) ==
    LET data == ErrorData(err) IN
    IF DOMAIN data # {}
    THEN [kind |-> err.kind, message |-> <<err.kind, err.value>>,
          data |-> data]
    ELSE [kind |-> err.kind, message |-> <<err.kind, err.value>>]

\* exceptions.py 71-88: ClientServerError.from_dict on the "error" object of
\* the response, with the from_data of the class found; BadConfigFile and
\* IllegalConfig (396-410) have none.
ErrorFromDict(jsn) ==
    LET data == IF "data" \in DOMAIN jsn THEN jsn.data ELSE <<>>
    IN  IF jsn.kind \notin DecodableKinds THEN [raises |-> "KeyError"]
        ELSE IF jsn.kind \in {"BadConfigFile", "IllegalConfig"}
        THEN [raises |-> "AttributeError"]
        ELSE IF ErrorDataKey[jsn.kind] \notin DOMAIN data
        THEN [raises |-> "AssertionError"]
        ELSE [raises |-> "none", kind |-> jsn.kind,
              value |-> data[ErrorDataKey[jsn.kind]]]

\* client/api.py 83-106: the exception handle_erroneous_response raises.
HandleErroneousResponse(jsn) ==
    LET err == ErrorFromDict(jsn) IN
    IF err.raises # "none"
    THEN [kind |-> "UnexpectedResponse", value |-> ""]
    ELSE [kind |-> err.kind, value |-> err.value]

\* The errors raised: BuildFailure has no identifying value.
ServerErrors ==
    {err \in [kind : ServerErrorKinds, value : ErrorValues \cup {""}] :
        err.value = "" <=> ErrorDataKey[err.kind] = ""}

InitWire ==
    /\ ServerInit /\ ResolveIdle /\ SourceIdle /\ ConfigIdle
    /\ mutationsCall = NoLibCall
    /\ wireCall \in
          [op : {"mutation"}, pc : {"made"}, value : WireMutations]
          \cup [op : {"error"}, pc : {"raised"}, value : ServerErrors]

\* The server: jsn = [m.to_dict() for m in mutations]
\* (server/__init__.py 484).
SendMutation ==
    /\ wireCall.op = "mutation"
    /\ wireCall.pc = "made"
    /\ wireCall' = [op |-> "mutation", pc |-> "sent",
                    value |-> wireCall.value,
                    dict |-> MutationToDict(wireCall.value)]
    /\ UNCHANGED <<server, resolveCall, bgzFiles, cacheFileContents,
                   cacheOffsets, sourceCall, languages, operators,
                   configCall, mutationsCall>>

\* The client: Mutation.from_dict(jsn_mutation) (client/__init__.py 201).
ReceiveMutation ==
    /\ wireCall.op = "mutation"
    /\ wireCall.pc = "sent"
    /\ wireCall' = [op |-> "mutation", pc |-> "decoded",
                    value |-> wireCall.value, dict |-> wireCall.dict,
                    decoded |-> MutationFromDict(wireCall.dict)]
    /\ UNCHANGED <<server, resolveCall, bgzFiles, cacheFileContents,
                   cacheOffsets, sourceCall, languages, operators,
                   configCall, mutationsCall>>

\* The server: throws_errors turns the error a handler raises into a
\* response (server/__init__.py 126-142).
SendError ==
    /\ wireCall.op = "error"
    /\ wireCall.pc = "raised"
    /\ wireCall' = [op |-> "error", pc |-> "sent", value |-> wireCall.value,
                    dict |-> ToResponse(wireCall.value)]
    /\ UNCHANGED <<server, resolveCall, bgzFiles, cacheFileContents,
                   cacheOffsets, sourceCall, languages, operators,
                   configCall, mutationsCall>>

\* The client: handle_erroneous_response on the response
\* (client/__init__.py 204-206).
ReceiveError ==
    /\ wireCall.op = "error"
    /\ wireCall.pc = "sent"
    /\ wireCall' = [op |-> "error", pc |-> "decoded",
                    value |-> wireCall.value, dict |-> wireCall.dict,
                    decoded |-> HandleErroneousResponse(wireCall.dict)]
    /\ UNCHANGED <<server, resolveCall, bgzFiles, cacheFileContents,
                   cacheOffsets, sourceCall, languages, operators,
                   configCall, mutationsCall>>

NextWire == SendMutation \/ ReceiveMutation \/ SendError \/ ReceiveError

SpecWire == InitWire /\ [][NextWire]_vars

ErrorRoundTrip ==
    (wireCall.op = "error" /\ wireCall.pc = "decoded")
    => /\ wireCall.decoded.kind = wireCall.value.kind
       /\ wireCall.decoded.value = wireCall.value.value

----------------------------------------------------------------------------
(* SourceFileManager.read_chars, checked on its own and against apply: the   *)
(* text of the file and a range of it are drawn in the initial state; the    *)
(* first step reads the characters of the range, the second applies a        *)
(* replacement that puts them back at the range.                             *)

\* sourcefile.py 293-318: read_chars.
ReadChars(key, location) ==
    LET contents_file == FileText(key)
        line_offsets == OffsetsOf(key)
        start_at == LineColToOffset(line_offsets, location.start.line,
                                    location.start.col)
        stop_at == LineColToOffset(line_offsets, location.stop.line,
                                   location.stop.col)
    IN  Slice(contents_file, start_at, stop_at + 1)

InitChars ==
    /\ ServerInit /\ FrontendIdle /\ ResolveIdle /\ ConfigIdle
    /\ cacheFileContents = <<>>
    /\ cacheOffsets = <<>>
    /\ \E contents \in Texts :
          /\ bgzFiles = (TheFile :> contents)
          /\ sourceCall \in
                {[op |-> "read_chars", pc |-> "called", from |-> a, to |-> b,
                  location |-> [start |-> OffsetToLocation(contents, a),
                                stop |-> OffsetToLocation(contents, b)],
                  chars |-> <<>>, result |-> <<>>] :
                    a \in 0..Len(contents), b \in 0..Len(contents)}
          /\ sourceCall.from <= sourceCall.to

\* read_chars(snapshot, location): read_file caches the text and
\* line_col_to_offset the line offsets.
ReadCharsReturn ==
    /\ sourceCall.op = "read_chars"
    /\ sourceCall.pc = "called"
    /\ sourceCall' = [sourceCall EXCEPT
          !.pc = "read", !.chars = ReadChars(TheFile, sourceCall.location)]
    /\ cacheFileContents' = (TheFile :> FileText(TheFile))
    /\ cacheOffsets' = (TheFile :> OffsetsOf(TheFile))
    /\ UNCHANGED <<server, frontend, resolveCall, bgzFiles, languages,
                   operators, configCall>>

\* apply(snapshot, filename, [Replacement(location, chars)]) with the
\* characters read_chars returned for the location.
ApplyCharsBack ==
    /\ sourceCall.op = "read_chars"
    /\ sourceCall.pc = "read"
    /\ sourceCall' = [sourceCall EXCEPT
          !.pc = "applied",
          !.result = Apply(TheFile,
                           <<[start |-> sourceCall.location.start,
                              stop |-> sourceCall.location.stop,
                              text |-> sourceCall.chars]>>)]
    /\ UNCHANGED <<server, frontend, resolveCall, bgzFiles, cacheFileContents,
                   cacheOffsets, languages, operators, configCall>>

NextChars == ReadCharsReturn \/ ApplyCharsBack

SpecChars == InitChars /\ [][NextChars]_vars

\* C26: read_chars(location) returns the characters of the half-open span
\* [offset(start), offset(stop)) of the cached text, the span apply replaces
\* for a replacement at that location; so applying a replacement whose text
\* is read_chars(location) at that location returns the original text.
ReadCharsHalfOpen ==
    /\ (sourceCall.op = "read_chars" /\ sourceCall.pc \in {"read", "applied"})
       => /\ Len(sourceCall.chars) = sourceCall.to - sourceCall.from
          /\ \A k \in 1..Len(sourceCall.chars) :
                sourceCall.chars[k]
                   = cacheFileContents[TheFile][sourceCall.from + k]
    /\ (sourceCall.op = "read_chars" /\ sourceCall.pc = "applied")
       => sourceCall.result = cacheFileContents[TheFile]

====
